---------------------------- MODULE Spec2Model ----------------------------
(***************************************************************************)
(* Model of the interview core of openai_chatbot:                          *)
(*   - the Story phase state machine (backend/domain/entities/story.py),   *)
(*   - the model-fallback cascades (api/ai_fallback.py,                    *)
(*     backend/app/core/agent.py, backend/app/services/snippets.py),       *)
(*   - the marker-based message filter (api/ai_fallback.py),               *)
(*   - the snippet regeneration pipeline (backend/app/services/snippets.py)*)
(* Each subsystem has its own next-state relation and specification; the   *)
(* variables of the other subsystems stay unchanged under it.              *)
(***************************************************************************)
EXTENDS Integers, Sequences, FiniteSets, TLC

VARIABLES
    \* ---- Story entity (story.py) ----
    current_phase,      \* Story.current_phase
    age_range,          \* Story.age_range, NoAge when None
    status,             \* Story.status
    story_ret,          \* the last call on the story and its outcome
    adv_idx,            \* phase_index seen after the last advance_phase call,
                        \* -1 when there was none since the last jump_to_phase
    \* ---- chat cascades (ai_fallback.py, agent.py) ----
    cas,                \* the last cascade call: function, inputs and result
    \* ---- message filter (ai_fallback.py) ----
    flt,                \* the last filter call: inputs, result or exception, and
                        \* the result of filtering that result again
    \* ---- snippet service (snippets.py) ----
    prs,                \* the last _parse_response call
    scas,               \* the last _generate_snippets_for_phase call
    snippets,           \* the rows of the snippets table
    next_id,            \* the id the next inserted row gets
    snip_ret,           \* the last call on the snippet service and its result
    grp,                \* the last _group_messages_by_phase call
    \* ---- generate_snippets runs in progress (snippets.py) ----
    gen,                \* the position and the locals of each run
    \* ---- phase-advance requests (use_cases/interview.py, services/interview.py) ----
    uc,                 \* the stored story, the requests in progress and the log
                        \* of the finished ones
    \* ---- InterviewService.process_chat (services/interview.py) ----
    chat,               \* the story row, its messages and the last call
    \* ---- ChronologicalSteward route (chronological_steward.py) ----
    stw                 \* the route object: phase, age_range, phase_order, and
                        \* the last call on it

story_vars == <<current_phase, age_range, status, story_ret, adv_idx>>

snip_vars == <<snippets, next_id, snip_ret>>

\* what a call on the story leaves alone
not_story_vars == <<cas, flt, prs, scas, snip_vars, grp, stw, gen, uc, chat>>

\* what a cascade call leaves alone
not_cas_vars == <<story_vars, flt, prs, scas, snip_vars, grp, stw, gen, uc, chat>>

\* what a filter call leaves alone
not_flt_vars == <<story_vars, cas, prs, scas, snip_vars, grp, stw, gen, uc, chat>>

\* what a _generate_snippets_for_phase call leaves alone
not_scas_vars == <<story_vars, cas, flt, prs, snip_vars, grp, stw, gen, uc, chat>>

\* what a _parse_response call leaves alone
not_prs_vars == <<story_vars, cas, flt, scas, snip_vars, grp, stw, gen, uc, chat>>

\* what a call on the snippets table leaves alone
not_snip_vars == <<story_vars, cas, flt, prs, scas, grp, stw, gen, uc, chat>>

\* what a _group_messages_by_phase call leaves alone
not_grp_vars == <<story_vars, cas, flt, prs, scas, snip_vars, stw, gen, uc, chat>>

\* what a call on the ChronologicalSteward route leaves alone
not_stw_vars == <<story_vars, cas, flt, prs, scas, snip_vars, grp, gen, uc, chat>>

\* what a step of a generate_snippets run leaves alone
not_gen_vars == <<story_vars, cas, flt, prs, scas, snip_ret, grp, stw, uc, chat>>

\* what a step of a phase-advance request leaves alone
not_uc_vars == <<story_vars, cas, flt, prs, scas, snip_vars, grp, stw, gen, chat>>

\* what a process_chat call leaves alone
not_chat_vars == <<story_vars, cas, flt, prs, scas, snip_vars, grp, stw, gen, uc>>

vars == <<story_vars, cas, flt, prs, scas, snip_vars, grp, stw, gen, uc, chat>>

(***************************************************************************)
(* Sequence helpers                                                        *)
(***************************************************************************)
Range(s) == {s[i] : i \in 1..Len(s)}

\* list.index(x), 0-based as in Python; only used when x is in the list
IndexOf(s, x) == (CHOOSE i \in 1..Len(s) : s[i] = x /\ \A j \in 1..(i-1) : s[j] # x) - 1

(***************************************************************************)
(* Story entity                                                            *)
(***************************************************************************)
Phase == <<"GREETING", "AGE_SELECTION", "FAMILY_HISTORY", "CHILDHOOD",
           "ADOLESCENCE", "EARLY_ADULTHOOD", "MIDLIFE", "PRESENT", "SYNTHESIS">>

PhaseNames == Range(Phase)

AgeRange == {"under_18", "18_30", "31_45", "46_60", "61_plus"}

NoAge == "None"

\* a string that is no value of the AgeRange enum
InvalidAge == "90_plus"

\* a string that is no value of the Phase enum
InvalidPhase == "BEFORE_BORN"

\* AGE_PHASE_MAPPING with every age range given the full list of phases
AgePhaseMappingFlat == [a \in AgeRange |-> Phase]

AGE_PHASE_MAPPING ==
    [a \in AgeRange |->
        CASE a = "under_18" ->
               <<"GREETING", "AGE_SELECTION", "FAMILY_HISTORY", "CHILDHOOD",
                 "ADOLESCENCE", "PRESENT", "SYNTHESIS">>
          [] a = "18_30" ->
               <<"GREETING", "AGE_SELECTION", "FAMILY_HISTORY", "CHILDHOOD",
                 "ADOLESCENCE", "EARLY_ADULTHOOD", "PRESENT", "SYNTHESIS">>
          [] OTHER -> Phase]

\* Story.available_phases for a given age_range value
AvailableFor(age) == IF age = NoAge THEN Phase ELSE AGE_PHASE_MAPPING[age]

available_phases == AvailableFor(age_range)

\* Story.phase_index for a given phase and age_range
PhaseIndexOf(phase, age) ==
    IF phase \in Range(AvailableFor(age))
    THEN IndexOf(AvailableFor(age), phase)
    ELSE 0

phase_index == PhaseIndexOf(current_phase, age_range)

\* Story.can_advance_to with `> 2` in place of `> 1` in the age gate
CanAdvanceToLateGate(target_phase) ==
    LET available == available_phases IN
    IF target_phase \notin Range(available) THEN FALSE
    ELSE LET current_idx == phase_index
             target_idx == IndexOf(available, target_phase) IN
         IF target_idx < current_idx THEN FALSE
         ELSE IF target_idx > 2 /\ age_range = NoAge THEN FALSE
         ELSE TRUE

\* Story.can_advance_to
can_advance_to(target_phase) ==
    LET available == available_phases IN
    IF target_phase \notin Range(available) THEN FALSE
    ELSE LET current_idx == phase_index
             target_idx == IndexOf(available, target_phase) IN
         IF target_idx < current_idx THEN FALSE
         ELSE IF target_idx > 1 /\ age_range = NoAge THEN FALSE
         ELSE TRUE

\* PhaseService.can_transition(from_phase, to_phase, available_phases, age_range)
can_transition(from_phase, to_phase, available, age) ==
    IF from_phase \notin Range(available) \/ to_phase \notin Range(available) THEN FALSE
    ELSE LET from_idx == IndexOf(available, from_phase)
             to_idx == IndexOf(available, to_phase) IN
         IF to_idx < from_idx THEN FALSE
         ELSE IF to_idx > 1 /\ age = NoAge THEN FALSE
         ELSE TRUE

StoryRet(op, arg, ok, result) ==
    [op |-> op, arg |-> arg, ok |-> ok, result |-> result,
     prev_phase |-> current_phase, prev_age |-> age_range]

\* Story.set_age_range without the check that age_range is still None
SetAgeRangeOverwriting(age) ==
    /\ IF age \notin AgeRange
       THEN /\ age_range' = age_range
            /\ story_ret' = StoryRet("set_age_range", age, FALSE, "ValueError")
       ELSE /\ age_range' = age
            /\ story_ret' = StoryRet("set_age_range", age, TRUE, "None")
    /\ UNCHANGED <<current_phase, status, adv_idx, not_story_vars>>

\* Story.set_age_range(age): raises when already set or when age is no AgeRange
set_age_range(age) ==
    /\ IF age_range # NoAge \/ age \notin AgeRange
       THEN /\ age_range' = age_range
            /\ story_ret' = StoryRet("set_age_range", age, FALSE, "ValueError")
       ELSE /\ age_range' = age
            /\ story_ret' = StoryRet("set_age_range", age, TRUE, "None")
    /\ UNCHANGED <<current_phase, status, adv_idx, not_story_vars>>

\* Story.advance_phase()
advance_phase ==
    LET phases == available_phases
        current_idx == phase_index
        next_phase == phases[current_idx + 2]    \* phases[current_idx + 1], 0-based
    IN  /\ UNCHANGED not_story_vars
        /\ IF current_idx >= Len(phases) - 1
           THEN /\ story_ret' = StoryRet("advance_phase", "", FALSE, "Already at final phase")
                /\ adv_idx' = phase_index
                /\ UNCHANGED <<current_phase, age_range, status>>
           ELSE IF ~can_advance_to(next_phase)
           THEN /\ story_ret' = StoryRet("advance_phase", "", FALSE, "Cannot advance")
                /\ adv_idx' = phase_index
                /\ UNCHANGED <<current_phase, age_range, status>>
           ELSE /\ current_phase' = next_phase
                /\ status' = IF next_phase = "SYNTHESIS" THEN "completed"
                             ELSE IF status = "draft" /\ current_idx > 0 THEN "in_progress"
                             ELSE status
                /\ story_ret' = StoryRet("advance_phase", "", TRUE, next_phase)
                /\ adv_idx' = PhaseIndexOf(next_phase, age_range)
                /\ UNCHANGED age_range

\* Story.jump_to_phase that also asks can_advance_to(target)
JumpToPhaseForwardOnly(target_phase) ==
    /\ IF target_phase \notin PhaseNames \/ ~can_advance_to(target_phase)
       THEN /\ current_phase' = current_phase
            /\ story_ret' = StoryRet("jump_to_phase", target_phase, FALSE, "ValueError")
       ELSE /\ current_phase' = target_phase
            /\ story_ret' = StoryRet("jump_to_phase", target_phase, TRUE, target_phase)
    /\ adv_idx' = -1
    /\ UNCHANGED <<age_range, status, not_story_vars>>

\* Story.jump_to_phase(target)
jump_to_phase(target_phase) ==
    /\ IF target_phase \notin PhaseNames \/ target_phase \notin Range(available_phases)
       THEN /\ current_phase' = current_phase
            /\ story_ret' = StoryRet("jump_to_phase", target_phase, FALSE, "ValueError")
       ELSE /\ current_phase' = target_phase
            /\ story_ret' = StoryRet("jump_to_phase", target_phase, TRUE, target_phase)
    /\ adv_idx' = -1
    /\ UNCHANGED <<age_range, status, not_story_vars>>

\* a caller asking Story.can_advance_to(target); the story is not changed
ask_can_advance_to(target_phase) ==
    /\ story_ret' = StoryRet("can_advance_to", target_phase, TRUE,
                          IF can_advance_to(target_phase) THEN "True" ELSE "False")
    /\ UNCHANGED <<current_phase, age_range, status, adv_idx, not_story_vars>>

\* Story(): the dataclass defaults
StoryInit ==
    /\ current_phase = "GREETING"
    /\ age_range = NoAge
    /\ status = "draft"
    /\ story_ret = [op |-> "new", arg |-> "", ok |-> TRUE, result |-> "None",
                    prev_phase |-> "GREETING", prev_age |-> NoAge]
    /\ adv_idx = -1

(***************************************************************************)
(* Text: a string is a sequence of one-character strings, so that          *)
(* lower-casing, substring search, stripping and slicing are computed.     *)
(***************************************************************************)
UpperChars == <<"A","B","C","D","E","F","G","H","I","J","K","L","M",
                "N","O","P","Q","R","S","T","U","V","W","X","Y","Z">>

LowerChars == <<"a","b","c","d","e","f","g","h","i","j","k","l","m",
                "n","o","p","q","r","s","t","u","v","w","x","y","z">>

LowerChar(c) ==
    IF \E i \in 1..26 : UpperChars[i] = c
    THEN LowerChars[CHOOSE i \in 1..26 : UpperChars[i] = c]
    ELSE c

\* str.lower()
Lower(s) == [i \in 1..Len(s) |-> LowerChar(s[i])]

\* `pat in s`
Contains(s, pat) ==
    \E i \in 0..(Len(s) - Len(pat)) : \A j \in 1..Len(pat) : s[i + j] = pat[j]

(***************************************************************************)
(* Model-fallback cascades                                                 *)
(***************************************************************************)
\* the models a call may be given: the first n of the built-in cascade
MaxModels == 3

\* get_model_cascade() of api/ai_fallback.py with GEMINI_MODELS unset
DefaultCascade == <<"gemini-2.5-flash", "gemini-2.5-flash-lite", "gemini-2.0-flash",
                    "gemini-2.0-flash-lite", "gemini-2.5-flash-preview",
                    "gemini-2.5-flash-lite-preview">>

Cascades == {SubSeq(DefaultCascade, 1, n) : n \in 1..MaxModels}

\* the indicators both cascades search for in the lower-cased error message
RateLimitIndicators ==
    { <<"4","2","9">>,
      <<"r","e","s","o","u","r","c","e","_","e","x","h","a","u","s","t","e","d">>,
      <<"r","a","t","e"," ","l","i","m","i","t">>,
      <<"q","u","o","t","a">> }

\* is_rate_limit without the .lower() of the message
IsRateLimitCaseSensitive(error_message) ==
    \E indicator \in RateLimitIndicators : Contains(error_message, indicator)

\* is_rate_limit = any(indicator in error_message.lower() for indicator in [...])
is_rate_limit(error_message) ==
    \E indicator \in RateLimitIndicators : Contains(Lower(error_message), indicator)

\* error messages a provider call may raise
Err429 == <<"4","2","9"," ","T","o","o"," ","M","a","n","y">>
ErrExhausted == <<"R","E","S","O","U","R","C","E","_","E","X","H","A","U","S","T","E","D">>
ErrRateLimit == <<"R","a","t","e"," ","l","i","m","i","t"," ","h","i","t">>
ErrQuota == <<"Q","u","o","t","a"," ","e","x","c","e","e","d","e","d">>
ErrApiKey == <<"I","n","v","a","l","i","d"," ","A","P","I"," ","k","e","y">>
ErrTimeout == <<"D","e","a","d","l","i","n","e"," ","e","x","c","e","e","d","e","d">>

ErrorMessages == {Err429, ErrExhausted, ErrRateLimit, ErrQuota, ErrApiKey, ErrTimeout}

Ok(text) == [kind |-> "ok", text |-> text]
Raise(message) == [kind |-> "error", text |-> message]

\* what one chat model call does: answers, or raises with a message
ChatOutcomes == {Ok(<<"H","i">>)} \cup {Raise(m) : m \in ErrorMessages}

\* model_cascade = models or get_model_cascade(): an empty list, like None,
\* gives the built-in cascade
ModelCascade(models) == IF models # <<>> THEN models ELSE DefaultCascade

\* the loop of run_gemini_fallback that tries a rate-limited model a second
\* time before it moves on
RECURSIVE FallbackLoopRetrying(_, _, _, _)
FallbackLoopRetrying(model_cascade, outs, i, invoked) ==
    IF i > Len(model_cascade)
    THEN [success |-> FALSE, content |-> <<>>, model |-> "None",
          attempts |-> Len(model_cascade),
          error |-> [kind |-> "failed", text |-> <<>>],
          invoked |-> invoked]
    ELSE LET model_name == model_cascade[i]
             now == Append(invoked, model_name) IN
         IF outs[i].kind = "ok"
         THEN [success |-> TRUE, content |-> outs[i].text, model |-> model_name,
               attempts |-> i, error |-> [kind |-> "None", text |-> <<>>],
               invoked |-> now]
         ELSE IF is_rate_limit(outs[i].text)
              THEN IF i = Len(model_cascade)
                   THEN [success |-> FALSE, content |-> <<>>, model |-> "None",
                         attempts |-> Len(model_cascade),
                         error |-> [kind |-> "exhausted", text |-> <<>>],
                         invoked |-> Append(now, model_name)]
                   ELSE FallbackLoopRetrying(model_cascade, outs, i + 1,
                                             Append(now, model_name))
              ELSE [success |-> FALSE, content |-> <<>>, model |-> "None",
                    attempts |-> i,
                    error |-> [kind |-> "error_with_model", text |-> outs[i].text],
                    invoked |-> now]

\* the loop of run_gemini_fallback from attempt_idx = i - 1 on; `invoked` lists
\* the models whose send_message has been called so far
RECURSIVE FallbackLoop(_, _, _, _)
FallbackLoop(model_cascade, outs, i, invoked) ==
    IF i > Len(model_cascade)
    THEN [success |-> FALSE, content |-> <<>>, model |-> "None",
          attempts |-> Len(model_cascade),
          error |-> [kind |-> "failed", text |-> <<>>],
          invoked |-> invoked]
    ELSE LET model_name == model_cascade[i]
             now == Append(invoked, model_name) IN
         IF outs[i].kind = "ok"
         THEN [success |-> TRUE, content |-> outs[i].text, model |-> model_name,
               attempts |-> i, error |-> [kind |-> "None", text |-> <<>>],
               invoked |-> now]
         ELSE IF is_rate_limit(outs[i].text)
              THEN IF i = Len(model_cascade)
                   THEN [success |-> FALSE, content |-> <<>>, model |-> "None",
                         attempts |-> Len(model_cascade),
                         error |-> [kind |-> "exhausted", text |-> <<>>],
                         invoked |-> now]
                   ELSE FallbackLoop(model_cascade, outs, i + 1, now)
              ELSE [success |-> FALSE, content |-> <<>>, model |-> "None",
                    attempts |-> i,
                    error |-> [kind |-> "error_with_model", text |-> outs[i].text],
                    invoked |-> now]

\* run_gemini_fallback where a non-rate-limit error moves on to the next model
RECURSIVE FallbackLoopNoAbort(_, _, _, _)
FallbackLoopNoAbort(model_cascade, outs, i, invoked) ==
    IF i > Len(model_cascade)
    THEN [success |-> FALSE, content |-> <<>>, model |-> "None",
          attempts |-> Len(model_cascade),
          error |-> [kind |-> "failed", text |-> <<>>],
          invoked |-> invoked]
    ELSE LET model_name == model_cascade[i]
             now == Append(invoked, model_name) IN
         IF outs[i].kind = "ok"
         THEN [success |-> TRUE, content |-> outs[i].text, model |-> model_name,
               attempts |-> i, error |-> [kind |-> "None", text |-> <<>>],
               invoked |-> now]
         ELSE IF i = Len(model_cascade)
              THEN [success |-> FALSE, content |-> <<>>, model |-> "None",
                    attempts |-> Len(model_cascade),
                    error |-> [kind |-> "exhausted", text |-> <<>>],
                    invoked |-> now]
              ELSE FallbackLoopNoAbort(model_cascade, outs, i + 1, now)

RunFallbackNoAbort(models, outs) == FallbackLoopNoAbort(models, outs, 1, <<>>)

\* run_gemini_fallback that reports attempts = 1 when the cascade is exhausted
RunFallbackShortCount(models, outs) ==
    LET r == FallbackLoop(models, outs, 1, <<>>) IN
    IF r.error.kind = "exhausted" THEN [r EXCEPT !.attempts = 1] ELSE r

\* run_gemini_fallback(messages, system_instruction, models) for a non-empty
\* message list; outs[i] is what the i-th model of the cascade does when invoked
run_gemini_fallback(models, outs) == FallbackLoop(ModelCascade(models), outs, 1, <<>>)

\* the loop of chatbot_node from attempt_idx = i - 1 on
RECURSIVE AgentLoop(_, _, _, _)
AgentLoop(model_cascade, outs, i, invoked) ==
    IF i > Len(model_cascade)
    THEN [raised |-> TRUE, exc |-> [kind |-> "failed", text |-> <<>>],
          response |-> <<>>, invoked |-> invoked]
    ELSE LET now == Append(invoked, model_cascade[i]) IN
         IF outs[i].kind = "ok"
         THEN [raised |-> FALSE, exc |-> [kind |-> "None", text |-> <<>>],
               response |-> outs[i].text, invoked |-> now]
         ELSE IF is_rate_limit(outs[i].text)
              THEN IF i = Len(model_cascade)
                   THEN [raised |-> TRUE, exc |-> [kind |-> "exhausted", text |-> <<>>],
                         response |-> <<>>, invoked |-> now]
                   ELSE AgentLoop(model_cascade, outs, i + 1, now)
              ELSE [raised |-> TRUE, exc |-> [kind |-> "reraised", text |-> outs[i].text],
                    response |-> <<>>, invoked |-> now]

\* chatbot_node(state) with the cascade get_model_cascade() returned
chatbot_node(models, outs) == AgentLoop(models, outs, 1, <<>>)

NoResult == [invoked |-> <<>>]

\* a caller invoking run_gemini_fallback on the pending input
call_run_gemini_fallback ==
    /\ cas.fn = "pending"
    /\ cas' = [cas EXCEPT !.fn = "run_gemini_fallback",
                          !.result = run_gemini_fallback(cas.models, cas.outs)]
    /\ UNCHANGED not_cas_vars

\* a caller invoking chatbot_node on the pending input
call_chatbot_node ==
    /\ cas.fn = "pending"
    /\ cas' = [cas EXCEPT !.fn = "chatbot_node",
                          !.result = chatbot_node(cas.models, cas.outs)]
    /\ UNCHANGED not_cas_vars

\* no cascade call is under way
CascadeIdle == cas = [fn |-> "none", models |-> <<>>, outs |-> <<>>, result |-> NoResult]

\* a cascade and, for each of its models, what that model does when invoked
CascadeInputs ==
    \E models \in Cascades : \E outs \in [1..Len(models) -> ChatOutcomes] :
        cas = [fn |-> "pending", models |-> models, outs |-> outs, result |-> NoResult]

\* what the models of the built-in cascade do when a caller passes an empty
\* list: the first k are rate-limited and the others all answer or all fail
DefaultOutcomes ==
    { [i \in 1..Len(DefaultCascade) |-> IF i <= k THEN Raise(Err429) ELSE o] :
        k \in 0..Len(DefaultCascade), o \in {Ok(<<"H","i">>), Raise(ErrApiKey)} }

\* a list of models as a caller passes it, the empty list included, and what
\* each model of the cascade does when invoked
CallInputs ==
    \/ CascadeInputs
    \/ \E outs \in DefaultOutcomes :
          cas = [fn |-> "pending", models |-> <<>>, outs |-> outs, result |-> NoResult]

(***************************************************************************)
(* filter_messages_by_phases                                               *)
(***************************************************************************)
\* str.upper()
UpperChar(c) ==
    IF \E i \in 1..26 : LowerChars[i] = c
    THEN UpperChars[CHOOSE i \in 1..26 : LowerChars[i] = c]
    ELSE c

Upper(s) == [i \in 1..Len(s) |-> UpperChar(s[i])]

\* the literal head of the marker pattern, lower-cased (the pattern is
\* compiled with re.IGNORECASE)
MarkerHead == <<"[","m","o","v","i","n","g"," ","t","o"," ","n","e","x","t"," ",
                "p","h","a","s","e",":">>

\* \s
IsSpace(c) == c \in {" ", "\t", "\n"}

\* [A-Z_] under re.IGNORECASE
IsNameChar(c) == c = "_" \/ \E i \in 1..26 : LowerChars[i] = LowerChar(c)

\* the least index in `stops`, Len(s)+1 when there is none
FirstStop(s, stops) ==
    IF stops = {} THEN Len(s) + 1
    ELSE CHOOSE j \in stops : \A k \in stops : j <= k

\* where group 1 of a match starting at index i lies: \s* and [A-Z_]+ are greedy
\* and nothing they give back can match what follows
NameStart(s, i) ==
    FirstStop(s, {j \in (i + Len(MarkerHead))..Len(s) : ~IsSpace(s[j])})

NameEnd(s, i) ==
    FirstStop(s, {j \in NameStart(s, i)..Len(s) : ~IsNameChar(s[j])})

\* the pattern \[Moving to next phase:\s*([A-Z_]+)\] matches at index i
MatchesAt(s, i) ==
    /\ i + Len(MarkerHead) - 1 <= Len(s)
    /\ \A j \in 1..Len(MarkerHead) : LowerChar(s[i + j - 1]) = MarkerHead[j]
    /\ NameEnd(s, i) > NameStart(s, i)
    /\ NameEnd(s, i) <= Len(s)
    /\ s[NameEnd(s, i)] = "]"

\* phase_marker_pattern.search(content) is not None
HasMarker(content) == \E i \in 1..Len(content) : MatchesAt(content, i)

\* marker_match.group(1) of the leftmost match
MarkerGroup(content) ==
    LET i == CHOOSE i \in 1..Len(content) :
                 MatchesAt(content, i) /\ \A k \in 1..(i - 1) : ~MatchesAt(content, k)
    IN SubSeq(content, NameStart(content, i), NameEnd(content, i) - 1)

\* current_phase = None in filter_messages_by_phases
NoPhase == <<>>

\* the for loop of filter_messages_by_phases from messages[i - 1] on
RECURSIVE FilterLoop(_, _, _, _, _)
FilterLoop(messages, normalized_phases, i, cur_phase, filtered_messages) ==
    IF i > Len(messages) THEN filtered_messages
    ELSE LET content == messages[i].content IN
         IF HasMarker(content)
         THEN FilterLoop(messages, normalized_phases, i + 1,
                         Upper(MarkerGroup(content)), filtered_messages)
         ELSE IF cur_phase # NoPhase /\ cur_phase \in Range(normalized_phases)
         THEN FilterLoop(messages, normalized_phases, i + 1, cur_phase,
                         Append(filtered_messages,
                                [role |-> messages[i].role, content |-> content]))
         ELSE FilterLoop(messages, normalized_phases, i + 1, cur_phase,
                         filtered_messages)

\* the loop without the `continue`: a marker message sets the phase and is
\* then treated like any other message
RECURSIVE FilterLoopKeepingMarkers(_, _, _, _, _)
FilterLoopKeepingMarkers(messages, normalized_phases, i, cur_phase, filtered_messages) ==
    IF i > Len(messages) THEN filtered_messages
    ELSE LET content == messages[i].content
             phase == IF HasMarker(content) THEN Upper(MarkerGroup(content))
                      ELSE cur_phase IN
         IF phase # NoPhase /\ phase \in Range(normalized_phases)
         THEN FilterLoopKeepingMarkers(messages, normalized_phases, i + 1, phase,
                         Append(filtered_messages,
                                [role |-> messages[i].role, content |-> content]))
         ELSE FilterLoopKeepingMarkers(messages, normalized_phases, i + 1, phase,
                         filtered_messages)

\* the loop without the test of current_phase against the requested phases
RECURSIVE FilterLoopAnyPhase(_, _, _, _, _)
FilterLoopAnyPhase(messages, normalized_phases, i, cur_phase, filtered_messages) ==
    IF i > Len(messages) THEN filtered_messages
    ELSE LET content == messages[i].content IN
         IF HasMarker(content)
         THEN FilterLoopAnyPhase(messages, normalized_phases, i + 1,
                                 Upper(MarkerGroup(content)), filtered_messages)
         ELSE IF cur_phase # NoPhase
         THEN FilterLoopAnyPhase(messages, normalized_phases, i + 1, cur_phase,
                         Append(filtered_messages,
                                [role |-> messages[i].role, content |-> content]))
         ELSE FilterLoopAnyPhase(messages, normalized_phases, i + 1, cur_phase,
                                 filtered_messages)

FilterAnyPhase(messages, phases) ==
    IF messages = <<>> \/ phases = <<>> THEN <<>>
    ELSE FilterLoopAnyPhase(messages, [k \in 1..Len(phases) |-> Upper(phases[k])],
                            1, NoPhase, <<>>)

FilterKeepingMarkers(messages, phases) ==
    IF messages = <<>> \/ phases = <<>> THEN <<>>
    ELSE FilterLoopKeepingMarkers(messages, [k \in 1..Len(phases) |-> Upper(phases[k])],
                                  1, NoPhase, <<>>)

\* filter_messages_by_phases(messages, phases) for a list of messages
filter_messages_by_phases(messages, phases) ==
    IF messages = <<>> \/ phases = <<>> THEN <<>>
    ELSE FilterLoop(messages, [k \in 1..Len(phases) |-> Upper(phases[k])],
                    1, NoPhase, <<>>)

\* message contents and phase names the calls are given
CHILDHOOD == <<"C","H","I","L","D","H","O","O","D">>
ADOLESCENCE == <<"A","D","O","L","E","S","C","E","N","C","E">>
MarkerText == <<"[","M","o","v","i","n","g"," ","t","o"," ","n","e","x","t"," ",
                "p","h","a","s","e",":">>
Marker(name) == MarkerText \o <<" ">> \o name \o <<"]">>
TextSoccer == <<"I"," ","p","l","a","y","e","d"," ","s","o","c","c","e","r",".">>
TextLove == <<"I"," ","f","e","l","l"," ","i","n"," ","l","o","v","e",".">>

\* the longest message list a filter call is given
MaxMessages == 3

FilterMessages ==
    { [role |-> "user", content |-> Marker(CHILDHOOD)],
      [role |-> "assistant", content |-> Marker(ADOLESCENCE)],
      \* lower case, no blank after the colon, inside other text
      [role |-> "assistant",
       content |-> <<"o","k"," ">> \o Lower(MarkerText) \o Lower(CHILDHOOD) \o <<"]","!">>],
      \* not a marker: no phase name
      [role |-> "user", content |-> MarkerText \o <<" ","]">>],
      [role |-> "user", content |-> TextSoccer],
      [role |-> "user", content |-> TextLove] }

FilterPhaseLists == { <<>>, <<CHILDHOOD>>, <<Lower(CHILDHOOD), ADOLESCENCE>> }

MessageLists == UNION {[1..n -> FilterMessages] : n \in 0..MaxMessages}

\* what the messages argument is: a list, None, or a value that is neither
\* (a string)
ArgKinds == {"list", "None", "str"}

\* the argument checks of filter_messages_by_phases with no check at all
ArgumentErrorNever(kind) == "None"

\* the argument checks at the head of filter_messages_by_phases: the
\* exception raised for the messages argument, "None" when there is none
ArgumentError(kind) ==
    IF kind = "None" THEN "TypeError"
    ELSE IF kind # "list" THEN "ValueError"
    ELSE "None"

\* a caller filtering the pending input
call_filter ==
    /\ flt.fn = "pending"
    /\ flt' = IF ArgumentError(flt.kind) # "None"
              THEN [flt EXCEPT !.fn = "raised", !.error = ArgumentError(flt.kind)]
              ELSE [flt EXCEPT !.fn = "filtered",
                               !.result = filter_messages_by_phases(flt.messages, flt.phases)]
    /\ UNCHANGED not_flt_vars

\* a caller filtering the result of the first call again, with the same phases
call_filter_again ==
    /\ flt.fn = "filtered"
    /\ flt' = [flt EXCEPT !.fn = "refiltered",
                          !.again = filter_messages_by_phases(flt.result, flt.phases)]
    /\ UNCHANGED not_flt_vars

FilterIdle ==
    flt = [fn |-> "none", kind |-> "list", messages |-> <<>>, phases |-> <<>>,
           result |-> <<>>, again |-> <<>>, error |-> "None"]

\* `messages` holds the list when the argument is one
FilterInputs ==
    \E kind \in ArgKinds :
    \E messages \in IF kind = "list" THEN MessageLists ELSE {<<>>} :
    \E phases \in FilterPhaseLists :
        flt = [fn |-> "pending", kind |-> kind, messages |-> messages, phases |-> phases,
               result |-> <<>>, again |-> <<>>, error |-> "None"]

(***************************************************************************)
(* SnippetService: parsing a model response                                *)
(*                                                                         *)
(* A response text is a sequence of lines.  A line is a code fence (three  *)
(* backquotes, written <fence>, with or without a language tag), or a      *)
(* whole JSON document (named by a string, its value given by JsonValue),  *)
(* or text that is no JSON.  json.loads succeeds on exactly one document.  *)
(***************************************************************************)
\* str.strip()
Strip(s) ==
    LET keep == {i \in 1..Len(s) : ~IsSpace(s[i])} IN
    IF keep = {} THEN <<>>
    ELSE SubSeq(s, CHOOSE i \in keep : \A k \in keep : i <= k,
                   CHOOSE j \in keep : \A k \in keep : j >= k)

MaxContentChars == 300

\* the width of the title column, String(200)
MaxTitleChars == 200

\* c * n
Repeat(c, n) == [i \in 1..n |-> c]

\* content[:297] + "..."
Truncate(content) == SubSeq(content, 1, MaxContentChars - 3) \o <<".", ".", ".">>

AbsentKey == <<"<", "absent", ">">>

DefaultTheme == <<"g","r","o","w","t","h">>

Item(title, content, theme) ==
    [is_dict |-> TRUE, title |-> title, content |-> content, theme |-> theme]

\* an item that also carries a "phase" key
Labelled(item, phase) == ("phase" :> phase) @@ item

\* snippet_data.get("phase")
GetPhase(snippet_data) ==
    IF "phase" \in DOMAIN snippet_data THEN snippet_data.phase ELSE "None"

NotADict == [is_dict |-> FALSE, title |-> <<>>, content |-> <<>>, theme |-> <<>>]

\* the JSON documents a model may answer with
JsonDocs == {"DocOne", "DocTwo", "DocEmpty", "DocList", "DocLong", "DocEdge"}

\* json.loads of a document: an object with its "snippets" list, or no object
JsonValue(doc) ==
    CASE doc = "DocOne" ->
           [is_object |-> TRUE,
            snippets |-> << Labelled(Item(<<" ","S","o","c","c","e","r"," ">>,
                                          <<"T","h","e","y"," ","p","l","a","y","e","d",".">>,
                                          <<"F","r","i","e","n","d","s","h","i","p">>),
                                     "MIDLIFE") >>]
      [] doc = "DocTwo" ->
           [is_object |-> TRUE,
            snippets |-> << Item(<<"L","o","v","e">>,
                                 <<"F","i","r","s","t"," ","l","o","v","e",".">>,
                                 AbsentKey),
                            Item(<<" ">>, <<"x">>, AbsentKey),
                            NotADict,
                            Item(<<"H","o","m","e">>,
                                 <<"A"," ","n","e","w"," ","h","o","m","e",".">>,
                                 <<"f","a","m","i","l","y">>) >>]
      [] doc = "DocLong" ->
           [is_object |-> TRUE,
            snippets |-> << Item(Repeat("T", MaxTitleChars + 1),
                                 Repeat("c", MaxContentChars + 1),
                                 DefaultTheme) >>]
      [] doc = "DocEdge" ->
           [is_object |-> TRUE,
            snippets |-> << Item(Repeat("T", MaxTitleChars),
                                 <<" ">> \o Repeat("c", MaxContentChars) \o <<" ">>,
                                 AbsentKey) >>]
      [] doc = "DocEmpty" -> [is_object |-> TRUE, snippets |-> <<>>]
      [] OTHER -> [is_object |-> FALSE, snippets |-> <<>>]

IsFence(line) == line \in {"<fence>", "<fence>json"}

\* the lines left after the code-fence handling of _parse_response
Unfenced(lines) ==
    IF lines # <<>> /\ IsFence(lines[1])
    THEN LET rest == Tail(lines) IN
         IF rest # <<>> /\ rest[Len(rest)] = "<fence>"
         THEN SubSeq(rest, 1, Len(rest) - 1)
         ELSE rest
    ELSE lines

\* the validation loop of _parse_response over parsed["snippets"]
RECURSIVE Validated(_)
Validated(items) ==
    IF items = <<>> THEN <<>>
    ELSE LET snippet == Head(items)
             title == Strip(snippet.title)
             content == Strip(snippet.content)
             theme == Lower(IF snippet.theme = AbsentKey THEN DefaultTheme
                            ELSE snippet.theme) IN
         IF ~snippet.is_dict \/ title = <<>> \/ content = <<>>
         THEN Validated(Tail(items))
         ELSE << [title |-> title,
                  content |-> IF Len(content) > MaxContentChars
                              THEN Truncate(content) ELSE content,
                  theme |-> theme] >> \o Validated(Tail(items))

ErrAttribute == <<"'","l","i","s","t","'"," ","o","b","j","e","c","t"," ","h","a","s"," ",
                  "n","o"," ","a","t","t","r","i","b","u","t","e"," ","'","g","e","t","'">>

\* what a call on the snippet service returns; `invoked` lists the models
\* whose llm.invoke has been called
PhaseResult(success, snippet_list, model, error_kind, error_text, invoked) ==
    [success |-> success, snippets |-> snippet_list, count |-> Len(snippet_list),
     model |-> model, error |-> [kind |-> error_kind, text |-> error_text],
     invoked |-> invoked]

\* _parse_response(response_text, model_name): the dict it returns, or raised
\* with the AttributeError of parsed.get on a JSON value that is no object
parse_response(lines, model_name) ==
    LET text == Unfenced(lines) IN
    IF Len(text) # 1 \/ text[1] \notin JsonDocs
    THEN [raised |-> FALSE,
          value |-> PhaseResult(FALSE, <<>>, model_name, "json_decode", <<>>, <<>>)]
    ELSE IF ~JsonValue(text[1]).is_object
    THEN [raised |-> TRUE,
          value |-> PhaseResult(FALSE, <<>>, model_name, "attribute", ErrAttribute, <<>>)]
    ELSE [raised |-> FALSE,
          value |-> PhaseResult(TRUE, Validated(JsonValue(text[1]).snippets),
                                model_name, "None", <<>>, <<>>)]

\* the names _parse_response is given for the model that answered
ModelNames == {"gemma-3-12b-it", "gemini-2.0-flash", "test-model"}

\* the response texts a model may answer with: a document or other text, bare
\* or inside a code fence, closed or not
ResponseTexts ==
    LET bodies == JsonDocs \cup {"Sorry, I cannot help."} IN
    UNION { { <<b>>, <<"<fence>json", b, "<fence>">>, <<"<fence>", b, "<fence>">>,
              <<"<fence>json", b>>, <<b, "<fence>">> } : b \in bodies }

\* a caller invoking _parse_response on the pending input
call_parse_response ==
    /\ prs.fn = "pending"
    /\ prs' = [prs EXCEPT !.fn = "parse_response",
                          !.result = parse_response(prs.lines, prs.model_name)]
    /\ UNCHANGED not_prs_vars

NotParsed == [raised |-> FALSE,
              value |-> PhaseResult(FALSE, <<>>, "None", "None", <<>>, <<>>)]

ParseIdle ==
    prs = [fn |-> "none", lines |-> <<>>, model_name |-> "None", result |-> NotParsed]

ParseInputs ==
    \E lines \in ResponseTexts : \E model_name \in ModelNames :
        prs = [fn |-> "pending", lines |-> lines, model_name |-> model_name,
               result |-> NotParsed]

(***************************************************************************)
(* SnippetService._generate_snippets_for_phase: the cascade                *)
(***************************************************************************)
\* get_model_cascade() of snippets.py with GEMINI_MODELS unset
SnippetDefaultCascade == <<"gemma-3-12b-it", "gemini-2.0-flash-exp", "gemini-2.0-flash",
                           "gemini-2.5-flash", "gemini-flash-latest",
                           "gemini-2.0-flash-lite">>

SnippetCascades == {SubSeq(SnippetDefaultCascade, 1, n) : n \in 1..MaxModels}

\* what one snippet model call does: answers with a text, or raises
SnippetOutcomes ==
    { [kind |-> "error", text |-> Err429, lines |-> <<>>],
      [kind |-> "error", text |-> ErrQuota, lines |-> <<>>],
      [kind |-> "error", text |-> ErrApiKey, lines |-> <<>>],
      [kind |-> "ok", text |-> <<>>, lines |-> <<"DocOne">>],
      [kind |-> "ok", text |-> <<>>, lines |-> <<"<fence>json", "DocTwo", "<fence>">>],
      [kind |-> "ok", text |-> <<>>, lines |-> <<"DocEmpty">>],
      [kind |-> "ok", text |-> <<>>, lines |-> <<"DocList">>],
      [kind |-> "ok", text |-> <<>>, lines |-> <<"Sorry, I cannot help.">>] }

\* the exception handler of the loop at attempt_idx = i - 1 decides to go on
\* to the next model
GoesOn(model_cascade, i, error_message) ==
    \/ is_rate_limit(error_message) /\ i - 1 < Len(model_cascade) - 1
    \/ ~(i - 1 = Len(model_cascade) - 1)

\* the loop of _generate_snippets_for_phase from attempt_idx = i - 1 on
RECURSIVE SnippetLoop(_, _, _, _)
SnippetLoop(model_cascade, outs, i, invoked) ==
    IF i > Len(model_cascade)
    THEN PhaseResult(FALSE, <<>>, "None", "failed", <<>>, invoked)
    ELSE LET model_name == model_cascade[i]
             now == Append(invoked, model_name)
             parsed == parse_response(outs[i].lines, model_name)
             raised == outs[i].kind = "error" \/ parsed.raised
             error_message == IF outs[i].kind = "error" THEN outs[i].text
                              ELSE parsed.value.error.text IN
         IF ~raised
         THEN [parsed.value EXCEPT !.invoked = now]
         ELSE IF GoesOn(model_cascade, i, error_message)
         THEN SnippetLoop(model_cascade, outs, i + 1, now)
         ELSE PhaseResult(FALSE, <<>>, "None", "all_failed", error_message, now)

\* _generate_snippets_for_phase(phase, messages, locked_snippets, model_cascade);
\* outs[i] is what model_cascade[i] does when invoked
generate_snippets_for_phase(model_cascade, outs) ==
    SnippetLoop(model_cascade, outs, 1, <<>>)

\* a caller invoking _generate_snippets_for_phase on the pending input
call_generate_snippets_for_phase ==
    /\ scas.fn = "pending"
    /\ scas' = [scas EXCEPT !.fn = "generate_snippets_for_phase",
                            !.result = generate_snippets_for_phase(scas.models, scas.outs)]
    /\ UNCHANGED not_scas_vars

SnippetCascadeIdle ==
    scas = [fn |-> "none", models |-> <<>>, outs |-> <<>>, result |-> NoResult]

SnippetCascadeInputs ==
    \E models \in SnippetCascades : \E outs \in [1..Len(models) -> SnippetOutcomes] :
        scas = [fn |-> "pending", models |-> models, outs |-> outs, result |-> NoResult]

(***************************************************************************)
(* SnippetService: the snippets table and generate_snippets                *)
(***************************************************************************)
\* the most rows the table is let grow to
MaxRows == 2

\* get_model_cascade() of snippets.py with GEMINI_MODELS set to two models
PipelineCascade == <<"gemini-2.5-flash", "gemini-2.0-flash">>

VALID_SNIPPET_PHASES == <<"FAMILY_HISTORY", "CHILDHOOD", "ADOLESCENCE",
                          "EARLY_ADULTHOOD", "MIDLIFE", "PRESENT">>

MIN_MESSAGES_PER_CHAPTER == 2

\* the stories table: story 1 has two chapters with enough user messages and
\* one without, story 2 has one chapter, story 3 has no messages, story 4 has
\* no message of a content-bearing chapter; there is no story 5; story 6 has
\* one chapter, with too few user messages for snippets
Stories == {1, 2, 3, 4, 6}

StoryIds == Stories \cup {5}

UserOf(story_id) == 10 + story_id

Msg(role, phase_context) == [role |-> role, phase_context |-> phase_context]

\* get_story_messages(story_id): the messages ordered by created_at
get_story_messages(story_id) ==
    CASE story_id = 1 ->
           << Msg("user", "GREETING"), Msg("user", "CHILDHOOD"),
              Msg("assistant", "CHILDHOOD"), Msg("user", "CHILDHOOD"),
              Msg("user", "ADOLESCENCE"), Msg("assistant", "ADOLESCENCE"),
              Msg("assistant", "ADOLESCENCE"), Msg("user", "PRESENT"),
              Msg("user", "None"), Msg("user", "PRESENT") >>
      [] story_id = 2 ->
           << Msg("user", "CHILDHOOD"), Msg("assistant", "CHILDHOOD"),
              Msg("user", "CHILDHOOD") >>
      [] story_id = 4 ->
           << Msg("user", "GREETING"), Msg("assistant", "None"),
              Msg("user", "SYNTHESIS") >>
      [] story_id = 6 ->
           << Msg("user", "CHILDHOOD"), Msg("assistant", "CHILDHOOD") >>
      [] OTHER -> <<>>

\* messages_by_phase[phase] of _group_messages_by_phase, <<>> for a missing key
InPhase(messages, phase) ==
    SelectSeq(messages, LAMBDA msg : msg.phase_context = phase)

\* the keys of the dict _group_messages_by_phase returns
group_messages_by_phase(messages) ==
    {phase \in Range(VALID_SNIPPET_PHASES) : InPhase(messages, phase) # <<>>}

\* user_message_count of generate_snippets
UserMessageCount(phase_messages) ==
    Len(SelectSeq(phase_messages, LAMBDA m : m.role = "user"))

\* the chapters of generate_snippets without the user-message threshold
CascadePhasesNoThreshold(story_id) ==
    group_messages_by_phase(get_story_messages(story_id))

\* the chapters generate_snippets runs the cascade for
CascadePhases(story_id) ==
    {phase \in group_messages_by_phase(get_story_messages(story_id)) :
        UserMessageCount(InPhase(get_story_messages(story_id), phase))
            >= MIN_MESSAGES_PER_CHAPTER}

\* the rows of a table as a list ordered by id (created_at ascending)
RECURSIVE ById(_)
ById(rows) ==
    IF rows = {} THEN <<>>
    ELSE LET first == CHOOSE r \in rows : \A q \in rows : r.id <= q.id IN
         <<first>> \o ById(rows \ {first})

\* get_locked_snippets(story_id): locked, active rows of the story
get_locked_snippets(table, story_id) ==
    ById({r \in table : r.story_id = story_id /\ r.is_locked /\ r.is_active})

\* delete_snippets that archives every active row of the story
DeleteSnippetsIgnoringLock(table, story_id) ==
    {IF r.story_id = story_id /\ r.is_active
     THEN [r EXCEPT !.is_active = FALSE] ELSE r : r \in table}

\* delete_snippets that removes the rows instead of archiving them
DeleteSnippetsPhysically(table, story_id) ==
    {r \in table : ~(r.story_id = story_id /\ ~r.is_locked /\ r.is_active)}

\* delete_snippets(story_id): the table after the update
delete_snippets(table, story_id) ==
    {IF r.story_id = story_id /\ ~r.is_locked /\ r.is_active
     THEN [r EXCEPT !.is_active = FALSE] ELSE r : r \in table}

\* _save_snippets that takes the phase from the snippet dict
SaveSnippetsModelPhase(first_id, story_id, user_id, snippet_list, hardcoded_phase, start_display_order) ==
    { [id |-> first_id + index - 1,
       story_id |-> story_id,
       user_id |-> user_id,
       title |-> snippet_list[index].title,
       content |-> snippet_list[index].content,
       theme |-> snippet_list[index].theme,
       phase |-> GetPhase(snippet_list[index]),
       is_locked |-> FALSE,
       is_active |-> TRUE,
       display_order |-> start_display_order + index - 1] : index \in 1..Len(snippet_list) }

\* the rows _save_snippets inserts, the first of them getting id first_id
save_snippets(first_id, story_id, user_id, snippet_list, hardcoded_phase, start_display_order) ==
    { [id |-> first_id + index - 1,
       story_id |-> story_id,
       user_id |-> user_id,
       title |-> snippet_list[index].title,
       content |-> snippet_list[index].content,
       theme |-> snippet_list[index].theme,
       phase |-> IF hardcoded_phase # "None" THEN hardcoded_phase
                 ELSE GetPhase(snippet_list[index]),
       is_locked |-> FALSE,
       is_active |-> TRUE,
       display_order |-> start_display_order + index - 1] : index \in 1..Len(snippet_list) }

\* what generate_snippets reads of the result of _generate_snippets_for_phase
\* when it decides what to save
Read(result) ==
    [success |-> result.success, snippets |-> result.snippets, error |-> result.error.kind]

\* what _generate_snippets_for_phase can return with the pipeline's cascade,
\* the models answering, rate-limiting, failing or returning garbage
PhaseResults ==
    { Read(generate_snippets_for_phase(PipelineCascade, outs)) :
        outs \in [1..Len(PipelineCascade) -> SnippetOutcomes] }

\* the state of a generate_snippets run: the table, the id of the next row,
\* all_saved_snippets (ids) with the chapter each was saved for, errors and
\* display_order
RunState(table, first_id, saved, chapters, errors, display_order) ==
    [table |-> table, next_id |-> first_id, saved |-> saved, chapters |-> chapters,
     errors |-> errors, display_order |-> display_order]

\* the loop of generate_snippets with a `break` after the errors.append
RECURSIVE GenerateLoopStopping(_, _, _, _)
GenerateLoopStopping(story_id, res, k, run) ==
    IF k > Len(VALID_SNIPPET_PHASES) THEN run
    ELSE LET phase == VALID_SNIPPET_PHASES[k] IN
         IF phase \notin DOMAIN res
         THEN GenerateLoopStopping(story_id, res, k + 1, run)
         ELSE IF res[phase].success /\ res[phase].snippets # <<>>
         THEN GenerateLoopStopping(story_id, res, k + 1,
                  RunState(run.table \cup save_snippets(run.next_id, story_id, UserOf(story_id),
                                                        res[phase].snippets, phase,
                                                        run.display_order),
                           run.next_id + Len(res[phase].snippets),
                           run.saved \o [i \in 1..Len(res[phase].snippets) |-> run.next_id + i - 1],
                           run.chapters \o [i \in 1..Len(res[phase].snippets) |-> phase],
                           run.errors,
                           run.display_order + Len(res[phase].snippets)))
         ELSE [run EXCEPT !.errors = Append(run.errors,
                                            [phase |-> phase, error |-> res[phase].error])]

\* the for loop of generate_snippets over VALID_SNIPPET_PHASES from index k on;
\* res[phase] is what _generate_snippets_for_phase returns for the chapter
RECURSIVE GenerateLoop(_, _, _, _)
GenerateLoop(story_id, res, k, run) ==
    IF k > Len(VALID_SNIPPET_PHASES) THEN run
    ELSE LET phase == VALID_SNIPPET_PHASES[k] IN
         IF phase \notin DOMAIN res
         THEN GenerateLoop(story_id, res, k + 1, run)
         ELSE IF res[phase].success /\ res[phase].snippets # <<>>
         THEN GenerateLoop(story_id, res, k + 1,
                  RunState(run.table \cup save_snippets(run.next_id, story_id, UserOf(story_id),
                                                        res[phase].snippets, phase,
                                                        run.display_order),
                           run.next_id + Len(res[phase].snippets),
                           run.saved \o [i \in 1..Len(res[phase].snippets) |-> run.next_id + i - 1],
                           run.chapters \o [i \in 1..Len(res[phase].snippets) |-> phase],
                           run.errors,
                           run.display_order + Len(res[phase].snippets)))
         ELSE GenerateLoop(story_id, res, k + 1,
                  [run EXCEPT !.errors = Append(run.errors,
                                                [phase |-> phase, error |-> res[phase].error])])

\* what a call returns: `saved` lists the ids of the rows a run inserted,
\* `errors` the chapters it got no snippets for with the error of each,
\* `locked` the ids of the locked snippets it read before archiving; for a
\* run that got to the chapters, `chapters` gives the chapter each row of
\* `saved` was saved for, `archived` the ids of the rows that were unlocked
\* and active when delete_snippets ran, `results` what the cascade returned
\* for each chapter; for a reorder request that was carried out, `snippet_ids`
\* is the list of ids it gave; for toggle_lock, soft_delete_snippet and
\* restore_snippet, `before` holds the row as the query found it (no row when
\* the call returns None)
SnipRet(op, arg, success, error, saved, errors, locked) ==
    [op |-> op, arg |-> arg, success |-> success, error |-> error,
     saved |-> saved, errors |-> errors, locked |-> locked,
     chapters |-> <<>>, archived |-> {}, results |-> <<>>, snippet_ids |-> <<>>,
     before |-> {}]

\* `if all_saved_snippets:` read as "no chapter failed"
RunSucceededWithoutErrors(run) == run.errors = <<>>

\* `if all_saved_snippets:` at the end of generate_snippets
RunSucceeded(run) == run.saved # <<>>

\* an early return that first archives the unlocked snippets of every story
GenerateRefusedArchiving(story_id, error) ==
    /\ snip_ret' = SnipRet("generate_snippets", story_id, FALSE, error, <<>>, <<>>, <<>>)
    /\ snippets' = {IF ~r.is_locked /\ r.is_active
                    THEN [r EXCEPT !.is_active = FALSE] ELSE r : r \in snippets}
    /\ UNCHANGED next_id

\* the early returns of generate_snippets
GenerateRefused(story_id, error) ==
    /\ snip_ret' = SnipRet("generate_snippets", story_id, FALSE, error, <<>>, <<>>, <<>>)
    /\ UNCHANGED <<snippets, next_id>>

\* SnippetService.generate_snippets(story_id) when what
\* _generate_snippets_for_phase returns is one of phase_results
run_generate_snippets(story_id, phase_results) ==
    /\ UNCHANGED not_snip_vars
    /\ IF story_id \notin Stories
       THEN GenerateRefused(story_id, "story not found")
       ELSE IF get_story_messages(story_id) = <<>>
       THEN GenerateRefused(story_id, "no messages")
       ELSE IF group_messages_by_phase(get_story_messages(story_id)) = {}
       THEN GenerateRefused(story_id, "no valid phase context")
       ELSE \E res \in [CascadePhases(story_id) -> phase_results] :
            \E locked_snippets \in {get_locked_snippets(snippets, story_id)} :
            \E run \in {GenerateLoop(story_id, res, 1,
                            RunState(delete_snippets(snippets, story_id), next_id,
                                     <<>>, <<>>, <<>>, 0))} :
                /\ run.next_id <= MaxRows + 1
                /\ snippets' = run.table
                /\ next_id' = run.next_id
                /\ snip_ret' =
                     [SnipRet("generate_snippets", story_id, RunSucceeded(run),
                              IF RunSucceeded(run)
                              THEN (IF run.errors = <<>> THEN "None" ELSE "partial errors")
                              ELSE (IF run.errors # <<>> THEN "failed to generate any"
                                    ELSE "no snippets generated"),
                              run.saved, run.errors,
                              [i \in 1..Len(locked_snippets) |-> locked_snippets[i].id])
                        EXCEPT !.chapters = run.chapters,
                               !.archived = {r.id : r \in {q \in snippets :
                                                 q.story_id = story_id /\ ~q.is_locked
                                                                       /\ q.is_active}},
                               !.results = res]

\* SnippetService.generate_snippets(story_id)
generate_snippets(story_id) == run_generate_snippets(story_id, PhaseResults)

\* the result of a call on one row
RowRet(op, snippet_id, found) ==
    SnipRet(op, snippet_id, found, IF found THEN "None" ELSE "not found", <<>>, <<>>, <<>>)

\* .filter(Snippet.id == snippet_id).first(): the row found, if any
FoundRow(snippet_id) == {r \in snippets : r.id = snippet_id}

\* toggle_lock that sets the lock instead of flipping it
ToggleLockSetting(snippet_id) ==
    /\ snippets' = {IF r.id = snippet_id THEN [r EXCEPT !.is_locked = TRUE] ELSE r :
                    r \in snippets}
    /\ snip_ret' = [RowRet("toggle_lock", snippet_id, \E r \in snippets : r.id = snippet_id)
                       EXCEPT !.before = FoundRow(snippet_id)]
    /\ UNCHANGED <<next_id, not_snip_vars>>

\* SnippetService.toggle_lock(snippet_id)
toggle_lock(snippet_id) ==
    /\ snippets' = {IF r.id = snippet_id THEN [r EXCEPT !.is_locked = ~r.is_locked] ELSE r :
                    r \in snippets}
    /\ snip_ret' = [RowRet("toggle_lock", snippet_id, \E r \in snippets : r.id = snippet_id)
                       EXCEPT !.before = FoundRow(snippet_id)]
    /\ UNCHANGED <<next_id, not_snip_vars>>

\* SnippetService.soft_delete_snippet(snippet_id)
soft_delete_snippet(snippet_id) ==
    /\ snippets' = {IF r.id = snippet_id THEN [r EXCEPT !.is_active = FALSE] ELSE r :
                    r \in snippets}
    /\ snip_ret' = [RowRet("soft_delete_snippet", snippet_id, \E r \in snippets : r.id = snippet_id)
                       EXCEPT !.before = FoundRow(snippet_id)]
    /\ UNCHANGED <<next_id, not_snip_vars>>

\* restore_snippet that also clears the lock
RestoreSnippetUnlocking(snippet_id) ==
    /\ snippets' = {IF r.id = snippet_id
                    THEN [r EXCEPT !.is_active = TRUE, !.is_locked = FALSE] ELSE r :
                    r \in snippets}
    /\ snip_ret' = [RowRet("restore_snippet", snippet_id, \E r \in snippets : r.id = snippet_id)
                       EXCEPT !.before = FoundRow(snippet_id)]
    /\ UNCHANGED <<next_id, not_snip_vars>>

\* SnippetService.restore_snippet(snippet_id)
restore_snippet(snippet_id) ==
    /\ snippets' = {IF r.id = snippet_id THEN [r EXCEPT !.is_active = TRUE] ELSE r :
                    r \in snippets}
    /\ snip_ret' = [RowRet("restore_snippet", snippet_id, \E r \in snippets : r.id = snippet_id)
                       EXCEPT !.before = FoundRow(snippet_id)]
    /\ UNCHANGED <<next_id, not_snip_vars>>

\* SnippetService.permanently_delete_snippet(snippet_id)
permanently_delete_snippet(snippet_id) ==
    /\ snippets' = {r \in snippets : r.id # snippet_id}
    /\ snip_ret' = RowRet("permanently_delete_snippet", snippet_id,
                          \E r \in snippets : r.id = snippet_id)
    /\ UNCHANGED <<next_id, not_snip_vars>>

\* rows as a list ordered by display_order, then created_at (id), ascending
RECURSIVE ByDisplayOrder(_)
ByDisplayOrder(rows) ==
    IF rows = {} THEN <<>>
    ELSE LET first == CHOOSE r \in rows : \A q \in rows :
                          \/ r.display_order < q.display_order
                          \/ r.display_order = q.display_order /\ r.id <= q.id IN
         <<first>> \o ByDisplayOrder(rows \ {first})

\* rows as a list ordered by created_at (id) descending
RECURSIVE ByCreatedDesc(_)
ByCreatedDesc(rows) ==
    IF rows = {} THEN <<>>
    ELSE LET first == CHOOSE r \in rows : \A q \in rows : r.id >= q.id IN
         <<first>> \o ByCreatedDesc(rows \ {first})

\* get_existing_snippets without the is_active filter
GetExistingUnfiltered(table, story_id, include_archived) ==
    ByDisplayOrder({r \in table : r.story_id = story_id})

\* get_existing_snippets(story_id, include_archived): result["snippets"]
get_existing_snippets(table, story_id, include_archived) ==
    ByDisplayOrder({r \in table : /\ r.story_id = story_id
                                  /\ include_archived \/ r.is_active = TRUE})

\* get_archived_snippets(story_id): result["snippets"]
get_archived_snippets(table, story_id) ==
    ByCreatedDesc({r \in table : r.story_id = story_id /\ r.is_active = FALSE})

\* SnippetService.delete_snippets(story_id) called on its own
call_delete_snippets(story_id) ==
    /\ snippets' = delete_snippets(snippets, story_id)
    /\ snip_ret' = SnipRet("delete_snippets", story_id, TRUE, "None", <<>>, <<>>, <<>>)
    /\ UNCHANGED <<next_id, not_snip_vars>>

\* the user the requests are made for: the owner of story 1
CurrentUser == UserOf(1)

\* the loop of reorder_snippets over enumerate(snippet_ids) from index k on;
\* position k of the list is order k - 1
RECURSIVE ReorderLoop(_, _, _, _)
ReorderLoop(table, story_id, snippet_ids, k) ==
    IF k > Len(snippet_ids) THEN table
    ELSE ReorderLoop({IF r.id = snippet_ids[k] /\ r.story_id = story_id /\ r.is_active = TRUE
                      THEN [r EXCEPT !.display_order = k - 1] ELSE r : r \in table},
                     story_id, snippet_ids, k + 1)

\* PUT /{story_id}/reorder: reorder_snippets(story_id, reorder_data)
reorder_snippets(story_id, snippet_ids) ==
    /\ UNCHANGED <<next_id, not_snip_vars>>
    /\ IF story_id \notin Stories
       THEN /\ snip_ret' = SnipRet("reorder_snippets", story_id, FALSE, "404", <<>>, <<>>, <<>>)
            /\ UNCHANGED snippets
       ELSE IF UserOf(story_id) # CurrentUser
       THEN /\ snip_ret' = SnipRet("reorder_snippets", story_id, FALSE, "403", <<>>, <<>>, <<>>)
            /\ UNCHANGED snippets
       ELSE /\ snippets' = ReorderLoop(snippets, story_id, snippet_ids, 1)
            /\ snip_ret' = [SnipRet("reorder_snippets", story_id, TRUE, "None", <<>>, <<>>, <<>>)
                               EXCEPT !.snippet_ids = snippet_ids]

\* an empty snippets table
SnippetsInit ==
    /\ snippets = {}
    /\ next_id = 1
    /\ snip_ret = SnipRet("none", 0, TRUE, "None", <<>>, <<>>, <<>>)

(***************************************************************************)
(* SnippetService._group_messages_by_phase                                 *)
(***************************************************************************)
\* grouped = {}
EmptyDict == [phase \in {} |-> <<>>]

\* the loop of _group_messages_by_phase that keeps every tag
RECURSIVE GroupLoopAnyTag(_, _, _)
GroupLoopAnyTag(messages, k, grouped) ==
    IF k > Len(messages) THEN grouped
    ELSE LET msg == messages[k]
             phase == msg.phase_context IN
         IF phase \notin DOMAIN grouped
         THEN GroupLoopAnyTag(messages, k + 1, (phase :> <<msg>>) @@ grouped)
         ELSE GroupLoopAnyTag(messages, k + 1, [grouped EXCEPT ![phase] = Append(@, msg)])

\* the for loop of _group_messages_by_phase from messages[k - 1] on; a tag of
\* "None" is phase_context None
RECURSIVE GroupLoop(_, _, _)
GroupLoop(messages, k, grouped) ==
    IF k > Len(messages) THEN grouped
    ELSE LET msg == messages[k]
             phase == msg.phase_context IN
         IF phase \in {"None", ""} \/ phase \notin Range(VALID_SNIPPET_PHASES)
         THEN GroupLoop(messages, k + 1, grouped)
         ELSE IF phase \notin DOMAIN grouped
         THEN GroupLoop(messages, k + 1, (phase :> <<msg>>) @@ grouped)
         ELSE GroupLoop(messages, k + 1, [grouped EXCEPT ![phase] = Append(@, msg)])

\* the dict _group_messages_by_phase returns
messages_by_phase(messages) == GroupLoop(messages, 1, EmptyDict)

\* the messages of a transcript: of the user and of the assistant, tagged
\* with a chapter, with a phase that is no chapter, or not tagged
GroupMessages ==
    { Msg("user", "CHILDHOOD"), Msg("assistant", "CHILDHOOD"), Msg("user", "PRESENT"),
      Msg("user", "GREETING"), Msg("assistant", "AGE_SELECTION"), Msg("user", "SYNTHESIS"),
      Msg("user", "None"), Msg("assistant", "") }

\* a caller grouping the pending transcript
call_group_messages_by_phase ==
    /\ grp.fn = "pending"
    /\ grp' = [grp EXCEPT !.fn = "grouped", !.result = messages_by_phase(grp.messages)]
    /\ UNCHANGED not_grp_vars

GroupIdle == grp = [fn |-> "none", messages |-> <<>>, result |-> EmptyDict]

GroupInputs ==
    \E messages \in UNION {[1..n -> GroupMessages] : n \in 0..MaxMessages} :
        grp = [fn |-> "pending", messages |-> messages, result |-> EmptyDict]

(***************************************************************************)
(* ChronologicalSteward route                                              *)
(***************************************************************************)
\* ChronologicalSteward.AGE_PHASE_MAPPING
STEWARD_AGE_PHASE_MAPPING ==
    [a \in AgeRange |->
        CASE a = "under_18" ->
               <<"GREETING", "AGE_SELECTION", "BEFORE_BORN", "CHILDHOOD",
                 "ADOLESCENCE", "PRESENT", "SYNTHESIS">>
          [] a = "18_30" ->
               <<"GREETING", "AGE_SELECTION", "BEFORE_BORN", "CHILDHOOD",
                 "ADOLESCENCE", "EARLY_ADULTHOOD", "PRESENT", "SYNTHESIS">>
          [] OTHER ->
               <<"GREETING", "AGE_SELECTION", "BEFORE_BORN", "CHILDHOOD",
                 "ADOLESCENCE", "EARLY_ADULTHOOD", "MIDLIFE", "PRESENT", "SYNTHESIS">>]

\* the words of should_advance that count as a yes in GREETING
Affirmative ==
    { <<"y","e","s">>, <<"y","e","a","h">>, <<"s","u","r","e">>, <<"r","e","a","d","y">>,
      <<"o","k">>, <<"l","e","t","'","s"," ","g","o">>, <<"s","i","m">>,
      <<"v","a","m","o","s">> }

\* age_map of should_advance
AgeMap ==
    [digit \in {<<"1">>, <<"2">>, <<"3">>, <<"4">>, <<"5">>} |->
        CASE digit = <<"1">> -> "under_18"
          [] digit = <<"2">> -> "18_30"
          [] digit = <<"3">> -> "31_45"
          [] digit = <<"4">> -> "46_60"
          [] OTHER -> "61_plus"]

\* the values of the AgeRange enum as the text a caller sends
AgeRangeValue ==
    (<<"u","n","d","e","r","_","1","8">> :> "under_18")
        @@ (<<"1","8","_","3","0">> :> "18_30")
        @@ (<<"3","1","_","4","5">> :> "31_45")
        @@ (<<"4","6","_","6","0">> :> "46_60")
        @@ (<<"6","1","_","p","l","u","s">> :> "61_plus")

\* PhaseService.parse_age_selection(input_value), "None" for None
parse_age_selection(input_value) ==
    IF input_value \in DOMAIN AgeMap THEN AgeMap[input_value]
    ELSE IF input_value \in DOMAIN AgeRangeValue THEN AgeRangeValue[input_value]
    ELSE "None"

\* _configure_phases_for_age: the phase_order for an age_range
ConfiguredPhases(age) ==
    IF age # NoAge /\ age \in DOMAIN STEWARD_AGE_PHASE_MAPPING
    THEN STEWARD_AGE_PHASE_MAPPING[age]
    ELSE STEWARD_AGE_PHASE_MAPPING["61_plus"]

\* the interview_phases list of should_advance
StewardInterviewPhases ==
    {"BEFORE_BORN", "CHILDHOOD", "ADOLESCENCE", "EARLY_ADULTHOOD", "MIDLIFE", "PRESENT"}

\* what a call on the route returns
StewardRet(op, user_message, explicit_transition, result) ==
    [op |-> op, user_message |-> user_message, explicit_transition |-> explicit_transition,
     result |-> result]

\* should_advance with `user_message in [...]` in place of the stripped text
ShouldAdvanceUnstripped(user_message, explicit_transition) ==
    /\ UNCHANGED not_stw_vars
    /\ IF stw.phase = "GREETING"
       THEN stw' = [stw EXCEPT !.ret = StewardRet("should_advance", user_message,
                                   explicit_transition,
                                   \E word \in Affirmative : Contains(Lower(user_message), word))]
       ELSE IF stw.phase = "AGE_SELECTION"
       THEN IF user_message \in DOMAIN AgeMap
            THEN stw' = [stw EXCEPT !.age_range = AgeMap[user_message],
                                    !.phase_order = ConfiguredPhases(AgeMap[user_message]),
                                    !.ret = StewardRet("should_advance", user_message,
                                                       explicit_transition, TRUE)]
            ELSE stw' = [stw EXCEPT !.ret = StewardRet("should_advance", user_message,
                                                       explicit_transition, FALSE)]
       ELSE stw' = [stw EXCEPT !.ret = StewardRet("should_advance", user_message,
                                   explicit_transition,
                                   IF stw.phase = "SYNTHESIS" THEN FALSE
                                   ELSE explicit_transition)]

\* should_advance that also advances a chapter on an affirmative message
ShouldAdvanceOnContent(user_message, explicit_transition) ==
    LET clean_message == Strip(user_message) IN
    /\ UNCHANGED not_stw_vars
    /\ IF stw.phase = "AGE_SELECTION"
       THEN IF clean_message \in DOMAIN AgeMap
            THEN stw' = [stw EXCEPT !.age_range = AgeMap[clean_message],
                                    !.phase_order = ConfiguredPhases(AgeMap[clean_message]),
                                    !.ret = StewardRet("should_advance", user_message,
                                                       explicit_transition, TRUE)]
            ELSE stw' = [stw EXCEPT !.ret = StewardRet("should_advance", user_message,
                                                       explicit_transition, FALSE)]
       ELSE stw' = [stw EXCEPT !.ret = StewardRet("should_advance", user_message,
                                   explicit_transition,
                                   \/ explicit_transition /\ stw.phase # "GREETING"
                                   \/ \E word \in Affirmative :
                                          Contains(Lower(user_message), word))]

\* ChronologicalSteward.should_advance(user_message, explicit_transition)
should_advance(user_message, explicit_transition) ==
    LET clean_message == Strip(user_message) IN
    /\ UNCHANGED not_stw_vars
    /\ IF stw.phase = "GREETING"
       THEN stw' = [stw EXCEPT !.ret = StewardRet("should_advance", user_message,
                                   explicit_transition,
                                   \E word \in Affirmative : Contains(Lower(user_message), word))]
       ELSE IF stw.phase = "AGE_SELECTION"
       THEN IF clean_message \in DOMAIN AgeMap
            THEN stw' = [stw EXCEPT !.age_range = AgeMap[clean_message],
                                    !.phase_order = ConfiguredPhases(AgeMap[clean_message]),
                                    !.ret = StewardRet("should_advance", user_message,
                                                       explicit_transition, TRUE)]
            ELSE stw' = [stw EXCEPT !.ret = StewardRet("should_advance", user_message,
                                                       explicit_transition, FALSE)]
       ELSE IF stw.phase \in StewardInterviewPhases
       THEN stw' = [stw EXCEPT !.ret = StewardRet("should_advance", user_message,
                                   explicit_transition, explicit_transition)]
       ELSE IF stw.phase = "SYNTHESIS"
       THEN stw' = [stw EXCEPT !.ret = StewardRet("should_advance", user_message,
                                   explicit_transition, FALSE)]
       ELSE stw' = [stw EXCEPT !.ret = StewardRet("should_advance", user_message,
                                   explicit_transition, explicit_transition)]

\* StoryRoute.advance_phase() on the route
route_advance_phase ==
    /\ UNCHANGED not_stw_vars
    /\ IF stw.phase \notin Range(stw.phase_order)
       THEN stw' = [stw EXCEPT !.ret = StewardRet("advance_phase", <<>>, FALSE, FALSE)]
       ELSE LET current_index == IndexOf(stw.phase_order, stw.phase) IN
            stw' = [stw EXCEPT !.phase = IF current_index < Len(stw.phase_order) - 1
                                         THEN stw.phase_order[current_index + 2]
                                         ELSE stw.phase,
                               !.ret = StewardRet("advance_phase", <<>>, FALSE, TRUE)]

\* StoryRoute.reset() on the route
route_reset ==
    /\ stw' = [stw EXCEPT !.phase = "GREETING", !.ret = StewardRet("reset", <<>>, FALSE, TRUE)]
    /\ UNCHANGED not_stw_vars

\* ChronologicalSteward()
StewardInit ==
    stw = [phase |-> "GREETING", age_range |-> NoAge,
           phase_order |-> <<"GREETING", "AGE_SELECTION">>,
           ret |-> StewardRet("new", <<>>, FALSE, TRUE)]

\* what the user types
StewardMessages ==
    { <<"1">>, <<"2">>, <<"3">>, <<"4">>, <<"5">>,
      <<" ", "3", " ">>, <<"3", "\n">>, <<"\t", "5">>, <<"1", " ">>,
      <<"0">>, <<"6">>, <<"3", "3">>, <<"3", " ", "1">>, <<"3", ".">>,
      <<>>, <<" ", " ">>,
      <<"3","1","_","4","5">>, <<"t","h","r","e","e">>,
      <<"Y","e","s","!">>, <<"n","o">> }

(***************************************************************************)
(* generate_snippets as a sequence of committed steps                      *)
(*                                                                         *)
(* A run commits in delete_snippets and in every _save_snippets; between   *)
(* two commits another run on the same table can take its own steps.       *)
(***************************************************************************)
\* the generate_snippets runs that can be in progress at the same time
Runs == {1, 2}

\* a run that has not been started
NoRun ==
    [pc |-> "idle", story_id |-> 0, k |-> 1, saved |-> <<>>, errors |-> <<>>,
     display_order |-> 0, archived |-> {}, mark |-> 0]

\* the index in VALID_SNIPPET_PHASES of the next chapter, from index k on, that
\* the loop of generate_snippets runs the cascade for; 0 when there is none
NextChapter(story_id, k) ==
    LET rest == {j \in k..Len(VALID_SNIPPET_PHASES) :
                    VALID_SNIPPET_PHASES[j] \in CascadePhases(story_id)} IN
    IF rest = {} THEN 0 ELSE CHOOSE j \in rest : \A i \in rest : j <= i

\* generate_snippets(story_id) up to the commit of delete_snippets: the checks,
\* get_locked_snippets and the archiving of the unlocked active snippets.
\* `archived` keeps the ids of the rows this step archived, `mark` the id the
\* next inserted row gets at that moment
gen_begin(p, story_id) ==
    /\ gen[p].pc = "idle"
    /\ story_id \in Stories
    /\ get_story_messages(story_id) # <<>>
    /\ group_messages_by_phase(get_story_messages(story_id)) # {}
    /\ snippets' = delete_snippets(snippets, story_id)
    /\ gen' = [gen EXCEPT ![p] =
                  [NoRun EXCEPT !.pc = "loop", !.story_id = story_id,
                                !.archived = {r.id : r \in {q \in snippets :
                                                 q.story_id = story_id /\ ~q.is_locked
                                                                       /\ q.is_active}},
                                !.mark = next_id]]
    /\ UNCHANGED <<next_id, not_gen_vars>>

\* a pass of the loop whose save also archives the unlocked snippets the story
\* has at that moment, as if archive and insert were one transaction
GenChapterReplacing(p, result) ==
    /\ gen[p].pc = "loop"
    /\ NextChapter(gen[p].story_id, gen[p].k) # 0
    /\ LET j == NextChapter(gen[p].story_id, gen[p].k)
           run == GenerateLoop(gen[p].story_id, (VALID_SNIPPET_PHASES[j] :> result), j,
                               RunState(delete_snippets(snippets, gen[p].story_id), next_id,
                                        gen[p].saved, <<>>,
                                        gen[p].errors, gen[p].display_order))
       IN  /\ run.next_id <= MaxRows + 1
           /\ snippets' = run.table
           /\ next_id' = run.next_id
           /\ gen' = [gen EXCEPT ![p].k = j + 1,
                                 ![p].saved = run.saved,
                                 ![p].errors = run.errors,
                                 ![p].display_order = run.display_order]
    /\ UNCHANGED not_gen_vars

\* one pass of the loop of generate_snippets that reaches the cascade: the
\* result of _generate_snippets_for_phase for the chapter and, when it holds
\* snippets, the commit of _save_snippets
gen_chapter(p, result) ==
    /\ gen[p].pc = "loop"
    /\ NextChapter(gen[p].story_id, gen[p].k) # 0
    /\ LET j == NextChapter(gen[p].story_id, gen[p].k)
           run == GenerateLoop(gen[p].story_id, (VALID_SNIPPET_PHASES[j] :> result), j,
                               RunState(snippets, next_id, gen[p].saved, <<>>,
                                        gen[p].errors, gen[p].display_order))
       IN  /\ run.next_id <= MaxRows + 1
           /\ snippets' = run.table
           /\ next_id' = run.next_id
           /\ gen' = [gen EXCEPT ![p].k = j + 1,
                                 ![p].saved = run.saved,
                                 ![p].errors = run.errors,
                                 ![p].display_order = run.display_order]
    /\ UNCHANGED not_gen_vars

\* the end of the loop: generate_snippets returns
gen_return(p) ==
    /\ gen[p].pc = "loop"
    /\ NextChapter(gen[p].story_id, gen[p].k) = 0
    /\ gen' = [gen EXCEPT ![p].pc = "done"]
    /\ UNCHANGED <<snippets, next_id, not_gen_vars>>

\* no generate_snippets run in progress
GenIdle == gen = [p \in Runs |-> NoRun]

(***************************************************************************)
(* InterviewService (backend/app/services/interview.py)                    *)
(***************************************************************************)
\* AGE_PHASE_MAPPING of services/interview.py
SERVICE_AGE_PHASE_MAPPING ==
    [a \in AgeRange |->
        CASE a = "under_18" ->
               <<"FAMILY_HISTORY", "CHILDHOOD", "ADOLESCENCE", "PRESENT", "SYNTHESIS">>
          [] a = "18_30" ->
               <<"FAMILY_HISTORY", "CHILDHOOD", "ADOLESCENCE", "EARLY_ADULTHOOD",
                 "PRESENT", "SYNTHESIS">>
          [] OTHER ->
               <<"FAMILY_HISTORY", "CHILDHOOD", "ADOLESCENCE", "EARLY_ADULTHOOD",
                 "MIDLIFE", "PRESENT", "SYNTHESIS">>]

\* InterviewService.get_phase_order(age_range)
get_phase_order(age) ==
    IF age # NoAge /\ age \in DOMAIN SERVICE_AGE_PHASE_MAPPING
    THEN SERVICE_AGE_PHASE_MAPPING[age]
    ELSE SERVICE_AGE_PHASE_MAPPING["61_plus"]

\* InterviewService.get_phase_index(phase, phase_order), 0-based
get_phase_index(phase, phase_order) ==
    IF phase \in Range(phase_order) THEN IndexOf(phase_order, phase) ELSE 0

\* InterviewService.advance_to_next_phase(story): the phase the story has when
\* it returns, for a story at `phase` with age range `age`
advance_to_next_phase(phase, age) ==
    LET phase_order == get_phase_order(age)
        current_idx == get_phase_index(phase, phase_order) IN
    IF current_idx < Len(phase_order) - 1
    THEN phase_order[current_idx + 2]      \* phase_order[current_idx + 1], 0-based
    ELSE phase

\* "[Age selected via button:" and "[Moving to next phase:"
AgeButtonHead == <<"[","A","g","e"," ","s","e","l","e","c","t","e","d"," ","v","i","a"," ","b","u","t","t","o","n",":">>
NextPhaseHead == <<"[","M","o","v","i","n","g"," ","t","o"," ","n","e","x","t"," ","p","h","a","s","e",":">>

\* re.search(head + r' ([^\]]+)\]', message).group(1), <<>> when there is no
\* match; head is the literal text before the blank
MarkerArgument(message, head) ==
    LET open == Append(head, " ")
        ends(i) == {j \in (i + Len(open) + 1)..Len(message) :
                       /\ message[j] = "]"
                       /\ \A k \in (i + Len(open))..(j - 1) : message[k] # "]"}
        starts == {i \in 1..Len(message) :
                       /\ i + Len(open) - 1 <= Len(message)
                       /\ SubSeq(message, i, i + Len(open) - 1) = open
                       /\ ends(i) # {}} IN
    IF starts = {} THEN <<>>
    ELSE LET i == CHOOSE a \in starts : \A b \in starts : a <= b
             j == CHOOSE a \in ends(i) : TRUE IN
         SubSeq(message, i + Len(open), j - 1)

\* the age_range column for a text: the name of the enum value it spells,
\* NoAge for a falsy text, InvalidAge for any other string
AgeName(text) ==
    IF text = <<>> THEN NoAge
    ELSE IF text \in DOMAIN AgeRangeValue THEN AgeRangeValue[text]
    ELSE InvalidAge

\* InterviewService.detect_age_selection(message), NoAge for None
detect_age_selection(message) ==
    IF Contains(message, AgeButtonHead) /\ MarkerArgument(message, AgeButtonHead) # <<>>
    THEN AgeName(MarkerArgument(message, AgeButtonHead))
    ELSE IF Strip(message) \in DOMAIN AgeMap THEN AgeMap[Strip(message)]
    ELSE NoAge

\* InterviewService.detect_phase_advance(message), <<>> for None
detect_phase_advance(message) ==
    IF Contains(message, NextPhaseHead)
    THEN MarkerArgument(message, NextPhaseHead)
    ELSE <<>>

\* get_model_cascade() of core/agent.py with GEMINI_MODELS unset
AgentCascade == <<"gemini-2.0-flash-exp", "gemini-2.0-flash", "gemini-2.5-flash",
                  "gemini-flash-latest", "gemini-2.0-flash-lite">>

\* what agent_app.invoke can do: chatbot_node with the first model answering,
\* with every model rate-limited, and with the first model failing otherwise
AgentRuns ==
    { chatbot_node(AgentCascade, outs) :
        outs \in { [i \in 1..Len(AgentCascade) |-> Ok(<<"O","k">>)],
                   [i \in 1..Len(AgentCascade) |-> Raise(Err429)],
                   [i \in 1..Len(AgentCascade) |-> Raise(ErrApiKey)] } }

\* a row of the messages table
ChatMessage(role, content, phase_context) ==
    [role |-> role, content |-> content, phase_context |-> phase_context]

\* .limit(20) of the history query
HistoryLimit == 20

\* history_records: order_by(created_at.asc()).limit(20)
history_records(messages) ==
    IF Len(messages) <= HistoryLimit THEN messages
    ELSE SubSeq(messages, 1, HistoryLimit)

\* the stories table as the service sees it: story 1 exists
ChatStories == {1}

\* what a process_chat call leaves behind for its caller: the arguments, the
\* exception it raised ("None" when it returned), the history it handed to the
\* agent, and the story and the number of messages as the call found them
ChatRet(op, story_id, user_content, advance, error, context, was, count) ==
    [op |-> op, story_id |-> story_id, user_content |-> user_content,
     advance_phase |-> advance, error |-> error, context |-> context,
     was |-> was, count |-> count]

\* the calls a behaviour makes on the service
MaxCalls == 2

\* process_chat that saves the user message after the agent has answered
ProcessChatSavingLate(story_id, user_content, advance, run) ==
    /\ chat.calls < MaxCalls
    /\ UNCHANGED not_chat_vars
    /\ IF story_id \notin ChatStories
       THEN chat' = [chat EXCEPT !.calls = @ + 1,
                        !.entered = chat.current_phase,
                        !.ret = ChatRet("process_chat", story_id, user_content, advance,
                                        "ValueError", <<>>,
                                        [current_phase |-> chat.current_phase,
                                         age_range |-> chat.age_range],
                                        Len(chat.messages))]
       ELSE LET detected_age == detect_age_selection(user_content)
                selected == detected_age # NoAge /\ chat.age_range = NoAge
                age == IF selected THEN detected_age ELSE chat.age_range
                entered == IF selected THEN get_phase_order(detected_age)[1]
                           ELSE chat.current_phase
                phase == IF detect_phase_advance(user_content) # <<>> \/ advance
                         THEN advance_to_next_phase(entered, age)
                         ELSE entered
                stored == Append(chat.messages, ChatMessage("user", user_content, phase))
            IN  chat' = [chat EXCEPT
                           !.calls = @ + 1,
                           !.current_phase = phase,
                           !.age_range = age,
                           !.entered = entered,
                           !.messages =
                               IF run.raised THEN chat.messages
                               ELSE Append(stored, ChatMessage("assistant", run.response, phase)),
                           !.ret = ChatRet("process_chat", story_id, user_content, advance,
                                           IF run.raised THEN "Exception" ELSE "None",
                                           history_records(stored),
                                           [current_phase |-> chat.current_phase,
                                            age_range |-> chat.age_range],
                                           Len(chat.messages))]

\* InterviewService.process_chat(story_id, user_content, advance_phase) when
\* agent_app.invoke does what `run` says.  `entered` keeps the phase the story
\* was given by the age selection of this call (its phase when there was none)
process_chat(story_id, user_content, advance, run) ==
    /\ chat.calls < MaxCalls
    /\ UNCHANGED not_chat_vars
    /\ IF story_id \notin ChatStories
       THEN chat' = [chat EXCEPT !.calls = @ + 1,
                        !.entered = chat.current_phase,
                        !.ret = ChatRet("process_chat", story_id, user_content, advance,
                                        "ValueError", <<>>,
                                        [current_phase |-> chat.current_phase,
                                         age_range |-> chat.age_range],
                                        Len(chat.messages))]
       ELSE LET detected_age == detect_age_selection(user_content)
                selected == detected_age # NoAge /\ chat.age_range = NoAge
                age == IF selected THEN detected_age ELSE chat.age_range
                entered == IF selected THEN get_phase_order(detected_age)[1]
                           ELSE chat.current_phase
                phase == IF detect_phase_advance(user_content) # <<>> \/ advance
                         THEN advance_to_next_phase(entered, age)
                         ELSE entered
                stored == Append(chat.messages, ChatMessage("user", user_content, phase))
            IN  chat' = [chat EXCEPT
                           !.calls = @ + 1,
                           !.current_phase = phase,
                           !.age_range = age,
                           !.entered = entered,
                           !.messages =
                               IF run.raised THEN stored
                               ELSE Append(stored, ChatMessage("assistant", run.response, phase)),
                           !.ret = ChatRet("process_chat", story_id, user_content, advance,
                                           IF run.raised THEN "Exception" ELSE "None",
                                           history_records(stored),
                                           [current_phase |-> chat.current_phase,
                                            age_range |-> chat.age_range],
                                           Len(chat.messages))]

\* the texts a user sends
TextHi == <<"h","i">>
TextThree == <<"3">>
TextOnePadded == <<" ","1"," ">>
TextAgeButton == <<"[","A","g","e"," ","s","e","l","e","c","t","e","d"," ","v","i","a"," ","b","u","t","t","o","n",":"," ","1","8","_","3","0","]">>
TextAgeButtonOther == <<"[","A","g","e"," ","s","e","l","e","c","t","e","d"," ","v","i","a"," ","b","u","t","t","o","n",":"," ","7","0","]">>
TextNextPhase == <<"[","M","o","v","i","n","g"," ","t","o"," ","n","e","x","t"," ","p","h","a","s","e",":"," ","C","H","I","L","D","H","O","O","D","]">>

ChatTexts ==
    {TextHi, TextThree, TextOnePadded, TextAgeButton, TextAgeButtonOther, TextNextPhase}

\* a story that has `n` messages from turns in GREETING, the user's and the
\* assistant's alternating
GreetingHistory(n) ==
    [i \in 1..n |-> ChatMessage(IF i % 2 = 1 THEN "user" ELSE "assistant", TextHi, "GREETING")]

\* Story(): current_phase defaults to GREETING, age_range to NULL, and the
\* story has no messages
NewChat(messages) ==
    [current_phase |-> "GREETING", age_range |-> NoAge, entered |-> "GREETING",
     messages |-> messages, calls |-> 0,
     ret |-> ChatRet("new", 0, <<>>, FALSE, "None", <<>>,
                     [current_phase |-> "GREETING", age_range |-> NoAge], 0)]

ChatInit == chat = NewChat(<<>>)

(***************************************************************************)
(* Phase-advance requests on one stored story                              *)
(*                                                                         *)
(* AdvancePhaseUseCase.execute loads the story through the repository,     *)
(* changes its own copy and saves it; InterviewService loads the story in  *)
(* its session and commits in advance_to_next_phase.  A request is two     *)
(* steps, the load and the rest, and requests interleave between them.     *)
(***************************************************************************)
\* a Story entity as a value
StoryValue(phase, age, story_status) ==
    [current_phase |-> phase, age_range |-> age, status |-> story_status]

\* Story.can_advance_to(target_phase) on the entity `s`
entity_can_advance_to(s, target_phase) ==
    LET available == AvailableFor(s.age_range) IN
    IF target_phase \notin Range(available) THEN FALSE
    ELSE LET current_idx == PhaseIndexOf(s.current_phase, s.age_range)
             target_idx == IndexOf(available, target_phase) IN
         IF target_idx < current_idx THEN FALSE
         ELSE IF target_idx > 1 /\ s.age_range = NoAge THEN FALSE
         ELSE TRUE

\* Story.advance_phase() on the entity `s`: the exception it raises ("None"
\* when it returns) and the entity afterwards
entity_advance_phase(s) ==
    LET phases == AvailableFor(s.age_range)
        current_idx == PhaseIndexOf(s.current_phase, s.age_range) IN
    IF current_idx >= Len(phases) - 1
    THEN [error |-> "ValueError", story |-> s]
    ELSE LET next_phase == phases[current_idx + 2] IN
         IF ~entity_can_advance_to(s, next_phase)
         THEN [error |-> "ValueError", story |-> s]
         ELSE [error |-> "None",
               story |-> StoryValue(next_phase, s.age_range,
                             IF next_phase = "SYNTHESIS" THEN "completed"
                             ELSE IF s.status = "draft" /\ current_idx > 0 THEN "in_progress"
                             ELSE s.status)]

\* Story.jump_to_phase(target_phase) on the entity `s`
entity_jump_to_phase(s, target_phase) ==
    IF target_phase \notin Range(AvailableFor(s.age_range))
    THEN [error |-> "ValueError", story |-> s]
    ELSE [error |-> "None", story |-> [s EXCEPT !.current_phase = target_phase]]

\* AdvancePhaseUseCase.execute from `previous_phase = story.current_phase` to
\* the statement before the save, on the loaded entity `s`
execute_advance(s, target_phase) ==
    IF target_phase # "None"
    THEN IF target_phase \notin PhaseNames
         THEN [error |-> "ValueError", story |-> s]            \* Phase(target_phase)
         ELSE IF ~entity_can_advance_to(s, target_phase)
         THEN [error |-> "PhaseTransitionError", story |-> s]
         ELSE entity_jump_to_phase(s, target_phase)
    ELSE entity_advance_phase(s)

\* the story row after the session of a request commits: the columns the
\* request changed on its copy are written, the others keep what is stored
Committed(stored, loaded, changed) ==
    StoryValue(IF changed.current_phase # loaded.current_phase
               THEN changed.current_phase ELSE stored.current_phase,
               IF changed.age_range # loaded.age_range
               THEN changed.age_range ELSE stored.age_range,
               IF changed.status # loaded.status
               THEN changed.status ELSE stored.status)

\* the requests that can be in progress at the same time
Requests == {1, 2}

\* the requests a behaviour makes
MaxRequests == 2

\* the story the requests are about, one that does not exist, the owner of
\* the story and another user
RequestStories == {1, 5}
RequestUsers == {UserOf(1), UserOf(2)}

\* the targets a request names: none, the phase before, a chapter, the last
\* phase, and a text that is no phase
RequestTargets == {"None", "GREETING", "CHILDHOOD", "SYNTHESIS", InvalidPhase}

NoRequest ==
    [pc |-> "idle", kind |-> "none", target |-> "None",
     story |-> StoryValue("GREETING", NoAge, "draft")]

\* an entry of the log: the request, what it loaded, the exception it ended
\* with, whether it wrote the story, the phase it wrote, and the stored story
\* before and after its last step
LogEntry(p, kind, target, loaded, error, saved, wrote, before, after) ==
    [p |-> p, kind |-> kind, target |-> target, loaded |-> loaded, error |-> error,
     saved |-> saved, wrote |-> wrote, before |-> before, after |-> after]

Started == Len(uc.log) + Cardinality({q \in Requests : uc.reqs[q].pc = "loaded"})

\* AdvancePhaseUseCase.execute up to the ownership check
uc_load(p, story_id, user_id, target) ==
    /\ uc.reqs[p].pc = "idle"
    /\ Started < MaxRequests
    /\ UNCHANGED not_uc_vars
    /\ IF story_id \notin Stories
       THEN uc' = [uc EXCEPT !.log = Append(@,
                      LogEntry(p, "use_case", target, uc.story, "EntityNotFoundError",
                               FALSE, "None", uc.story, uc.story))]
       ELSE IF UserOf(story_id) # user_id
       THEN uc' = [uc EXCEPT !.log = Append(@,
                      LogEntry(p, "use_case", target, uc.story, "AuthorizationError",
                               FALSE, "None", uc.story, uc.story))]
       ELSE uc' = [uc EXCEPT !.reqs[p] =
                      [pc |-> "loaded", kind |-> "use_case", target |-> target,
                       story |-> uc.story]]

\* the rest of execute working on the story as it is stored at that moment
\* instead of the copy the request loaded
UcExecuteOnStored(p) ==
    /\ uc.reqs[p].pc = "loaded"
    /\ uc.reqs[p].kind = "use_case"
    /\ UNCHANGED not_uc_vars
    /\ LET loaded == uc.reqs[p].story
           done == execute_advance(uc.story, uc.reqs[p].target)
           after == IF done.error = "None" THEN done.story ELSE uc.story
       IN  uc' = [uc EXCEPT !.story = after,
                            !.reqs[p] = NoRequest,
                            !.log = Append(@,
                                LogEntry(p, "use_case", uc.reqs[p].target, loaded, done.error,
                                         done.error = "None",
                                         IF done.error = "None" THEN done.story.current_phase
                                         ELSE "None",
                                         uc.story, after))]

\* AdvancePhaseUseCase.execute from previous_phase on: the transition on the
\* loaded entity and, when nothing was raised, story_repo.save
uc_execute(p) ==
    /\ uc.reqs[p].pc = "loaded"
    /\ uc.reqs[p].kind = "use_case"
    /\ UNCHANGED not_uc_vars
    /\ LET loaded == uc.reqs[p].story
           done == execute_advance(loaded, uc.reqs[p].target)
           after == IF done.error = "None" THEN Committed(uc.story, loaded, done.story)
                    ELSE uc.story
       IN  uc' = [uc EXCEPT !.story = after,
                            !.reqs[p] = NoRequest,
                            !.log = Append(@,
                                LogEntry(p, "use_case", uc.reqs[p].target, loaded, done.error,
                                         done.error = "None",
                                         IF done.error = "None" THEN done.story.current_phase
                                         ELSE "None",
                                         uc.story, after))]

\* process_chat with advance_phase set, up to the story query
svc_load(p, story_id) ==
    /\ uc.reqs[p].pc = "idle"
    /\ Started < MaxRequests
    /\ UNCHANGED not_uc_vars
    /\ IF story_id \notin Stories
       THEN uc' = [uc EXCEPT !.log = Append(@,
                      LogEntry(p, "service", "None", uc.story, "ValueError",
                               FALSE, "None", uc.story, uc.story))]
       ELSE uc' = [uc EXCEPT !.reqs[p] =
                      [pc |-> "loaded", kind |-> "service", target |-> "None",
                       story |-> uc.story]]

\* InterviewService.advance_to_next_phase(story) on the story the session loaded
svc_advance(p) ==
    /\ uc.reqs[p].pc = "loaded"
    /\ uc.reqs[p].kind = "service"
    /\ UNCHANGED not_uc_vars
    /\ LET loaded == uc.reqs[p].story
           new_phase == advance_to_next_phase(loaded.current_phase, loaded.age_range)
           stepped == get_phase_index(loaded.current_phase, get_phase_order(loaded.age_range))
                          < Len(get_phase_order(loaded.age_range)) - 1
           after == IF stepped
                    THEN Committed(uc.story, loaded, [loaded EXCEPT !.current_phase = new_phase])
                    ELSE uc.story
       IN  uc' = [uc EXCEPT !.story = after,
                            !.reqs[p] = NoRequest,
                            !.log = Append(@,
                                LogEntry(p, "service", "None", loaded, "None", stepped,
                                         IF stepped THEN new_phase ELSE "None",
                                         uc.story, after))]

\* the ages a story is created with
CreatedAges == {NoAge, "under_18", "61_plus"}

\* a story as CreateStoryUseCase leaves it, and no request
RequestsNew(age) ==
    [story |-> StoryValue("GREETING", age, "draft"),
     reqs |-> [p \in Requests |-> NoRequest],
     log |-> <<>>]

RequestsIdle == uc = RequestsNew(NoAge)

(***************************************************************************)
(* Specifications                                                          *)
(***************************************************************************)
\* the Story entity under any interleaving of its calls
Init == StoryInit /\ CascadeIdle /\ FilterIdle /\ SnippetCascadeIdle /\ SnippetsInit /\ GroupIdle /\ StewardInit /\ GenIdle /\ RequestsIdle /\ ChatInit /\ ParseIdle

Next ==
    \/ \E age \in AgeRange \cup {InvalidAge} : set_age_range(age)
    \/ advance_phase
    \/ \E target \in PhaseNames \cup {InvalidPhase} : jump_to_phase(target)
    \/ \E target \in PhaseNames : ask_can_advance_to(target)

Spec == Init /\ [][Next]_vars

\* the chat cascades on every input within the bounds
InitCascade == StoryInit /\ CascadeInputs /\ FilterIdle /\ SnippetCascadeIdle /\ SnippetsInit /\ GroupIdle /\ StewardInit /\ GenIdle /\ RequestsIdle /\ ChatInit /\ ParseIdle

NextCascade ==
    \/ call_run_gemini_fallback
    \/ call_chatbot_node

SpecCascade == InitCascade /\ [][NextCascade]_vars

\* the message filter on every input within the bounds
InitFilter == StoryInit /\ CascadeIdle /\ FilterInputs /\ SnippetCascadeIdle /\ SnippetsInit /\ GroupIdle /\ StewardInit /\ GenIdle /\ RequestsIdle /\ ChatInit /\ ParseIdle

NextFilter ==
    \/ call_filter
    \/ call_filter_again

SpecFilter == InitFilter /\ [][NextFilter]_vars

\* the snippet cascade on every input within the bounds
InitSnippetCascade == StoryInit /\ CascadeIdle /\ FilterIdle /\ SnippetCascadeInputs /\ SnippetsInit /\ GroupIdle /\ StewardInit /\ GenIdle /\ RequestsIdle /\ ChatInit /\ ParseIdle

NextSnippetCascade == call_generate_snippets_for_phase

SpecSnippetCascade == InitSnippetCascade /\ [][NextSnippetCascade]_vars

\* _parse_response on every response text
InitParse ==
    StoryInit /\ CascadeIdle /\ FilterIdle /\ SnippetCascadeIdle /\ SnippetsInit /\ GroupIdle /\ StewardInit /\ GenIdle /\ RequestsIdle /\ ChatInit /\ ParseInputs

NextParse == call_parse_response

SpecParse == InitParse /\ [][NextParse]_vars

\* the ids a caller passes: those rows can have; an id is that of no row
\* before it is given out and after the row is deleted for good
SnippetIds == 1..MaxRows

\* the snippet service under any sequence of calls and any model behaviour
NextSnippets ==
    \/ \E story_id \in StoryIds : generate_snippets(story_id)
    \/ \E snippet_id \in SnippetIds : toggle_lock(snippet_id)
    \/ \E snippet_id \in SnippetIds : soft_delete_snippet(snippet_id)
    \/ \E snippet_id \in SnippetIds : restore_snippet(snippet_id)
    \/ \E snippet_id \in SnippetIds : permanently_delete_snippet(snippet_id)

SpecSnippets == Init /\ [][NextSnippets]_vars


\* the lists of ids a reorder request carries: the ids rows can have, oldest
\* first or newest first
IdLists ==
    { [i \in 1..MaxRows |-> i], [i \in 1..MaxRows |-> MaxRows + 1 - i] }

\* the stories the requests name: one of the current user, one of another
\* user, and one that does not exist
LifecycleStories == {1, 2, 5}

\* what the models do in the life of a table: the first answers with one
\* snippet, or every one is rate-limited
LifecycleResults ==
    { Read(generate_snippets_for_phase(PipelineCascade, outs)) :
        outs \in { [i \in 1..Len(PipelineCascade) |->
                       [kind |-> "ok", text |-> <<>>, lines |-> <<"DocOne">>]],
                   [i \in 1..Len(PipelineCascade) |->
                       [kind |-> "error", text |-> Err429, lines |-> <<>>]] } }

\* the snippet service with the reorder endpoint, under any sequence of calls
NextLifecycle ==
    \/ \E story_id \in LifecycleStories : run_generate_snippets(story_id, LifecycleResults)
    \/ \E story_id \in LifecycleStories : call_delete_snippets(story_id)
    \/ \E snippet_id \in SnippetIds : toggle_lock(snippet_id)
    \/ \E snippet_id \in SnippetIds : soft_delete_snippet(snippet_id)
    \/ \E snippet_id \in SnippetIds : restore_snippet(snippet_id)
    \/ \E snippet_id \in SnippetIds : permanently_delete_snippet(snippet_id)
    \/ \E story_id \in LifecycleStories : \E snippet_ids \in IdLists :
          reorder_snippets(story_id, snippet_ids)

SpecLifecycle == Init /\ [][NextLifecycle]_vars


\* _group_messages_by_phase on every transcript within the bounds
InitGroup ==
    StoryInit /\ CascadeIdle /\ FilterIdle /\ SnippetCascadeIdle /\ SnippetsInit /\ GroupInputs
        /\ StewardInit /\ GenIdle /\ RequestsIdle /\ ChatInit /\ ParseIdle

NextGroup == call_group_messages_by_phase

SpecGroup == InitGroup /\ [][NextGroup]_vars

\* the ChronologicalSteward route under any sequence of user messages and calls
NextSteward ==
    \/ \E user_message \in StewardMessages : \E explicit_transition \in BOOLEAN :
          should_advance(user_message, explicit_transition)
    \/ route_advance_phase
    \/ route_reset

SpecSteward == Init /\ [][NextSteward]_vars

\* the chat cascades on every list of models a caller can pass
InitCalls ==
    /\ StoryInit /\ CallInputs /\ FilterIdle /\ SnippetCascadeIdle /\ SnippetsInit
    /\ GroupIdle /\ StewardInit /\ GenIdle /\ RequestsIdle /\ ChatInit /\ ParseIdle

NextCalls ==
    \/ call_run_gemini_fallback
    \/ call_chatbot_node

SpecCalls == InitCalls /\ [][NextCalls]_vars

\* two generate_snippets runs step by step, with users locking and unlocking
\* snippets in between
NextRuns ==
    \/ \E p \in Runs : \E story_id \in {1, 2} : gen_begin(p, story_id)
    \/ \E p \in Runs : \E result \in LifecycleResults : gen_chapter(p, result)
    \/ \E p \in Runs : gen_return(p)
    \/ \E snippet_id \in SnippetIds : toggle_lock(snippet_id)

SpecRuns == Init /\ [][NextRuns]_vars

\* phase-advance requests, at most two in progress, on a story created with
\* or without an age range
InitRequests ==
    /\ StoryInit /\ CascadeIdle /\ FilterIdle /\ SnippetCascadeIdle /\ SnippetsInit
    /\ GroupIdle /\ StewardInit /\ GenIdle /\ ChatInit /\ ParseIdle
    /\ \E age \in CreatedAges : uc = RequestsNew(age)

NextRequests ==
    \/ \E p \in Requests : \E story_id \in RequestStories : \E user_id \in RequestUsers :
       \E target \in RequestTargets : uc_load(p, story_id, user_id, target)
    \/ \E p \in Requests : uc_execute(p)
    \/ \E p \in Requests : \E story_id \in RequestStories : svc_load(p, story_id)
    \/ \E p \in Requests : svc_advance(p)

SpecRequests == InitRequests /\ [][NextRequests]_vars

\* process_chat calls on a new story, the agent answering or failing
NextChat ==
    \E story_id \in ChatStories \cup {9} : \E user_content \in ChatTexts :
    \E advance \in BOOLEAN : \E run \in AgentRuns :
        process_chat(story_id, user_content, advance, run)

SpecChat == Init /\ [][NextChat]_vars

\* the numbers of messages a story in GREETING starts with
HistoryCounts == (HistoryLimit - 2)..(HistoryLimit + 2)

\* process_chat calls on a story that already has a history
InitHistory ==
    /\ StoryInit /\ CascadeIdle /\ FilterIdle /\ SnippetCascadeIdle /\ SnippetsInit
    /\ GroupIdle /\ StewardInit /\ GenIdle /\ RequestsIdle /\ ParseIdle
    /\ \E n \in HistoryCounts : chat = NewChat(GreetingHistory(n))

NextHistory ==
    \E user_content \in {TextHi, TextThree} : \E advance \in BOOLEAN : \E run \in AgentRuns :
        process_chat(1, user_content, advance, run)

SpecHistory == InitHistory /\ [][NextHistory]_vars

(***************************************************************************)
(* Properties of the Story entity (checked under Spec)                     *)
(***************************************************************************)
\* C2: once age_range is set, current_phase is a member of available_phases,
\* in every state reachable by set_age_range, advance_phase and jump_to_phase
\* calls on a story that starts at GREETING with no age range.
C2_PhaseInAvailable ==
    age_range # NoAge => current_phase \in Range(available_phases)

\* C3: from one advance_phase call to the next one, with no jump_to_phase in
\* between, phase_index does not decrease, and it never exceeds
\* len(available_phases) - 1.
C3_AdvanceMonotonic ==
    [][ /\ (adv_idx # -1 /\ adv_idx' # -1) => adv_idx' >= adv_idx
        /\ phase_index' <= Len(available_phases') - 1 ]_vars

\* the three rejections the claim lists, on the state the question was asked in
C9_Rejects(target) ==
    \/ target \notin Range(available_phases)
    \/ /\ target \in Range(available_phases)
       /\ \/ IndexOf(available_phases, target) < phase_index
          \/ IndexOf(available_phases, target) > 1 /\ age_range = NoAge

\* C9: can_advance_to(target) returns false exactly when target is not in
\* available_phases, or its index is lower than the current phase index, or
\* its index is greater than 1 while age_range is unset; true otherwise.
C9_CanAdvanceTo ==
    story_ret.op = "can_advance_to" =>
        (story_ret.result = "False") = C9_Rejects(story_ret.arg)

\* can_advance_to has refused a forward target only because the age is unset,
\* and has accepted AGE_SELECTION from GREETING
C9_Witness ==
    /\ story_ret.op = "can_advance_to"
    /\ story_ret.result = "False"
    /\ age_range = NoAge
    /\ current_phase = "AGE_SELECTION"
    /\ story_ret.arg = "FAMILY_HISTORY"

\* C10: advance_phase moves current_phase to the phase right after it in
\* available_phases; at SYNTHESIS it raises and leaves current_phase unchanged.
C10_AdvanceOneStep ==
    story_ret.op = "advance_phase" =>
        LET before == story_ret.prev_phase IN
        IF before = "SYNTHESIS"
        THEN ~story_ret.ok /\ current_phase = before
        ELSE IF story_ret.ok
        THEN /\ before \in Range(available_phases)
             /\ current_phase = available_phases[IndexOf(available_phases, before) + 2]
        ELSE current_phase = before

(***************************************************************************)
(* Properties of the chat cascades (checked under SpecCascade)             *)
(***************************************************************************)
\* the error messages that carry one of the rate-limit signatures
SignatureMessages == {Err429, ErrExhausted, ErrRateLimit, ErrQuota}

RateLimited(o) == o.kind = "error" /\ o.text \in SignatureMessages

Fatal(o) == o.kind = "error" /\ o.text \notin SignatureMessages

\* the first k models of the call are rate-limited
FirstRateLimited(k) == \A i \in 1..k : RateLimited(cas.outs[i])

\* C4: when the first k models fail with a rate-limit signature and the next
\* one succeeds, run_gemini_fallback returns success with that (k+1)-th model
\* and attempts = k+1, and invokes no model after it.
C4_CascadeOrdering ==
    cas.fn = "run_gemini_fallback" =>
        \A k \in 0..(Len(cas.models) - 1) :
            (FirstRateLimited(k) /\ cas.outs[k + 1].kind = "ok") =>
                /\ cas.result.success
                /\ cas.result.model = cas.models[k + 1]
                /\ cas.result.attempts = k + 1
                /\ cas.result.content = cas.outs[k + 1].text
                /\ cas.result.invoked = SubSeq(cas.models, 1, k + 1)

\* [A,B,C] with A and B rate-limited and C answering: attempts = 3, model = C
C4_Witness ==
    /\ cas.fn = "run_gemini_fallback"
    /\ Len(cas.models) = 3
    /\ cas.outs[1].text = ErrExhausted
    /\ cas.outs[2].text = Err429
    /\ cas.outs[3].kind = "ok"
    /\ cas.result.attempts = 3
    /\ cas.result.model = cas.models[3]

\* C5: when a model fails with an error matching no rate-limit pattern, the
\* cascade stops: run_gemini_fallback returns success = false with attempts =
\* the number of models tried so far, chatbot_node re-raises that error, and
\* no later model is invoked.
C5_FailFast ==
    cas.fn \in {"run_gemini_fallback", "chatbot_node"} =>
        \A k \in 1..Len(cas.models) :
            (FirstRateLimited(k - 1) /\ Fatal(cas.outs[k])) =>
                /\ cas.result.invoked = SubSeq(cas.models, 1, k)
                /\ cas.fn = "run_gemini_fallback" =>
                      /\ ~cas.result.success
                      /\ cas.result.attempts = k
                      /\ cas.result.error.text = cas.outs[k].text
                /\ cas.fn = "chatbot_node" =>
                      /\ cas.result.raised
                      /\ cas.result.exc = [kind |-> "reraised", text |-> cas.outs[k].text]

\* [A,B] with A failing on a bad API key: attempts = 1 and B is never invoked
C5_Witness ==
    /\ cas.fn = "run_gemini_fallback"
    /\ Len(cas.models) = 2
    /\ cas.outs[1].text = ErrApiKey
    /\ cas.outs[2].kind = "ok"
    /\ cas.result.attempts = 1
    /\ cas.result.invoked = <<cas.models[1]>>

\* C7: when every model fails with a rate-limit signature, each model is
\* tried once in list order, run_gemini_fallback returns success = false,
\* model = None, empty content and attempts = len(models), and chatbot_node
\* raises the "all models exhausted" error.
C7_AllExhausted ==
    (cas.fn \in {"run_gemini_fallback", "chatbot_node"} /\ FirstRateLimited(Len(cas.models))) =>
        /\ cas.result.invoked = cas.models
        /\ cas.fn = "run_gemini_fallback" =>
              /\ ~cas.result.success
              /\ cas.result.model = "None"
              /\ cas.result.content = <<>>
              /\ cas.result.attempts = Len(cas.models)
              /\ cas.result.error.kind = "exhausted"
        /\ cas.fn = "chatbot_node" =>
              /\ cas.result.raised
              /\ cas.result.exc.kind = "exhausted"

\* three models, all rate-limited, and the call has returned
C7_Witness ==
    /\ cas.fn = "run_gemini_fallback"
    /\ Len(cas.models) = 3
    /\ FirstRateLimited(3)
    /\ cas.result.attempts = 3
    /\ ~cas.result.success

(***************************************************************************)
(* Properties of the message filter (checked under SpecFilter)             *)
(***************************************************************************)
\* C8 as stated: filtering the result of a filter call again, with the same
\* phase set, gives the same list.
C8_Idempotent ==
    flt.fn = "refiltered" => flt.again = flt.result

\* C8 as amended: filtering the result of a filter call again, with the same
\* phase set, gives the empty list (the first call drops the markers the
\* second call would need), so the two results agree only when the first is
\* empty.
C8_SecondPassEmpty ==
    flt.fn = "refiltered" => flt.again = <<>>

\* a CHILDHOOD marker followed by a message: the first call keeps the message,
\* the second call returns nothing
C8_Witness ==
    /\ flt.fn = "refiltered"
    /\ flt.messages = << [role |-> "user", content |-> Marker(CHILDHOOD)],
                         [role |-> "user", content |-> TextSoccer] >>
    /\ flt.phases = <<CHILDHOOD>>
    /\ flt.result = << [role |-> "user", content |-> TextSoccer] >>
    /\ flt.again = <<>>

(***************************************************************************)
(* Properties of the snippet cascade (checked under SpecSnippetCascade)    *)
(***************************************************************************)
\* C6: in _generate_snippets_for_phase, a model error that matches no
\* rate-limit pattern aborts the cascade: no later model is invoked.
C6_SnippetFailFast ==
    scas.fn = "generate_snippets_for_phase" =>
        \A k \in 1..Len(scas.models) :
            ( /\ \A i \in 1..(k - 1) : RateLimited(scas.outs[i])
              /\ Fatal(scas.outs[k]) )
            => scas.result.invoked = SubSeq(scas.models, 1, k)

(***************************************************************************)
(* Story navigation and age selection                                      *)
(***************************************************************************)
\* C11: jump_to_phase(target) sets current_phase to target whenever target is
\* in available_phases, wherever the story stands, and otherwise raises and
\* leaves current_phase as it was
C11_JumpToPhase ==
    story_ret.op = "jump_to_phase"
        => IF story_ret.arg \in Range(AvailableFor(story_ret.prev_age))
           THEN story_ret.ok /\ current_phase = story_ret.arg
           ELSE ~story_ret.ok /\ current_phase = story_ret.prev_phase

\* a jump back to an earlier phase, and a refused jump, are both seen: here the
\* jump went backward
C11_Witness ==
    /\ story_ret.op = "jump_to_phase"
    /\ story_ret.ok
    /\ story_ret.prev_phase \in Range(available_phases)
    /\ IndexOf(available_phases, story_ret.arg)
          < IndexOf(available_phases, story_ret.prev_phase)
    /\ current_phase = story_ret.arg

\* C12: set_age_range succeeds only while age_range is None; once it is set
\* every later call raises and leaves age_range, and so available_phases,
\* as they were
C12_AgeRangeSetOnce ==
    story_ret.op = "set_age_range"
        => IF story_ret.prev_age = NoAge
           THEN story_ret.arg \in AgeRange => story_ret.ok /\ age_range = story_ret.arg
           ELSE /\ ~story_ret.ok
                /\ age_range = story_ret.prev_age
                /\ available_phases = AvailableFor(story_ret.prev_age)

\* a second set_age_range call, with another valid age range, was refused
C12_Witness ==
    /\ story_ret.op = "set_age_range"
    /\ story_ret.prev_age \in AgeRange
    /\ story_ret.arg \in AgeRange \ {story_ret.prev_age}
    /\ ~story_ret.ok
    /\ age_range = story_ret.prev_age

(***************************************************************************)
(* The snippet regeneration pipeline                                       *)
(***************************************************************************)
\* the rows of a story that are locked and active
LockedActive(table, story_id) ==
    {r \in table : r.story_id = story_id /\ r.is_locked /\ r.is_active}

\* C1: a generate_snippets run, whatever the models return, leaves every
\* snippet of the story that is locked and active when it starts in the
\* table, with the same id, title and content and still locked and active
C1_LockedPreserved ==
    [][snip_ret'.op = "generate_snippets"
         => \A r \in LockedActive(snippets, snip_ret'.arg) :
               \E q \in snippets' :
                   /\ q.id = r.id
                   /\ q.title = r.title
                   /\ q.content = r.content
                   /\ q.is_locked
                   /\ q.is_active]_vars

\* a run that inserted new snippets and left the locked snippets it had read
\* before archiving in place
C1_Witness ==
    /\ snip_ret.op = "generate_snippets"
    /\ snip_ret.saved # <<>>
    /\ snip_ret.locked # <<>>
    /\ \A id \in Range(snip_ret.locked) :
          \E r \in snippets : r.id = id /\ r.story_id = snip_ret.arg
                                 /\ r.is_locked /\ r.is_active

\* the row with a given id
RowOf(snippet_id) == CHOOSE r \in snippets : r.id = snippet_id

\* C13: the snippets a regeneration run saves get display_order values above
\* that of every locked snippet the run kept
C13_DisplayOrderContinues ==
    snip_ret.op = "generate_snippets"
        => \A new \in Range(snip_ret.saved) : \A kept \in Range(snip_ret.locked) :
              RowOf(new).display_order > RowOf(kept).display_order

(***************************************************************************)
(* Parsing a model response (checked under SpecParse)                      *)
(***************************************************************************)
\* s.endswith("...")
EndsWithEllipsis(s) ==
    Len(s) >= 3 /\ SubSeq(s, Len(s) - 2, Len(s)) = <<".", ".", ".">>

\* the snippet is what the validation makes of the item, its content either
\* kept or cut to the limit with an ellipsis at the end
ComesFrom(snippet, item) ==
    /\ item.is_dict
    /\ snippet.title = Strip(item.title)
    /\ IF Len(Strip(item.content)) > MaxContentChars
       THEN Len(snippet.content) = MaxContentChars /\ EndsWithEllipsis(snippet.content)
       ELSE snippet.content = Strip(item.content)

\* the items of the document a response text carries
ItemsOf(lines) ==
    IF Len(Unfenced(lines)) = 1 /\ Unfenced(lines)[1] \in JsonDocs
    THEN JsonValue(Unfenced(lines)[1]).snippets ELSE <<>>

\* C14: every snippet _parse_response returns has a content of at most 300
\* characters, ending with "..." when it was truncated, and a title of at most
\* 200 characters
C14_LengthLimits ==
    prs.fn = "parse_response"
        => \A snippet \in Range(prs.result.value.snippets) :
              /\ Len(snippet.content) <= MaxContentChars
              /\ \E item \in Range(ItemsOf(prs.lines)) : ComesFrom(snippet, item)
              /\ Len(snippet.title) <= MaxTitleChars

(***************************************************************************)
(* What the message filter returns (checked under SpecFilter)              *)
(***************************************************************************)
\* the phase names a marker may carry, as strings of characters
PhaseNameTexts ==
    { CHILDHOOD, ADOLESCENCE, Lower(CHILDHOOD), Lower(ADOLESCENCE) }

\* the content is a transition marker, or has one inside
IsTransitionMarker(content) ==
    \/ \E name \in PhaseNameTexts : content = Marker(name)
    \/ HasMarker(content)

\* C15: the output of filter_messages_by_phases holds no message whose content
\* is a transition marker, whatever the messages and the phases asked for
C15_NoMarkerInOutput ==
    flt.fn \in {"filtered", "refiltered"}
        => \A i \in 1..Len(flt.result) : ~IsTransitionMarker(flt.result[i].content)

\* a call that was given the marker of a phase it was asked for, and returned
\* messages of that phase
C15_Witness ==
    /\ flt.fn = "filtered"
    /\ CHILDHOOD \in Range(flt.phases)
    /\ \E i \in 1..Len(flt.messages) : flt.messages[i].content = Marker(CHILDHOOD)
    /\ flt.result # <<>>

\* the index of the nearest marker message before messages[i], 0 if none
NearestMarker(messages, i) ==
    LET before == {j \in 1..(i - 1) : HasMarker(messages[j].content)} IN
    IF before = {} THEN 0 ELSE CHOOSE j \in before : \A k \in before : k <= j

\* messages[i] is no marker and its nearest preceding marker names one of the
\* phases, compared without regard to case
Belongs(messages, phases, i) ==
    LET j == NearestMarker(messages, i) IN
    /\ ~HasMarker(messages[i].content)
    /\ j # 0
    /\ \E k \in 1..Len(phases) :
          Upper(MarkerGroup(messages[j].content)) = Upper(phases[k])

\* the messages that belong, in their original order
Belonging(messages, phases) ==
    LET kept == SelectSeq([i \in 1..Len(messages) |-> i],
                          LAMBDA i : Belongs(messages, phases, i)) IN
    [n \in 1..Len(kept) |-> [role |-> messages[kept[n]].role,
                             content |-> messages[kept[n]].content]]

\* C16: filter_messages_by_phases(msgs, S) returns, in their original order,
\* exactly the non-marker messages whose nearest preceding marker names a
\* phase in S; messages before the first marker are never returned
C16_ExactlyThePhases ==
    flt.fn \in {"filtered", "refiltered"}
        => flt.result = Belonging(flt.messages, flt.phases)

\* a message before the first marker was left out, the message after a marker
\* of a phase asked for was returned
C16_Witness ==
    /\ flt.fn = "filtered"
    /\ Len(flt.messages) = 3
    /\ ~HasMarker(flt.messages[1].content)
    /\ flt.messages[2].content = Marker(CHILDHOOD)
    /\ ~HasMarker(flt.messages[3].content)
    /\ flt.result = << flt.messages[3] >>

(***************************************************************************)
(* Regeneration runs (checked under SpecSnippets)                          *)
(***************************************************************************)
\* the call got past the precondition checks of generate_snippets
PastChecks(ret) ==
    /\ ret.op = "generate_snippets"
    /\ ret.error \notin {"story not found", "no messages", "no valid phase context"}

\* C17: a regeneration run that gets past its precondition checks archives
\* every snippet of the story that was unlocked and active when it started,
\* deletes no row, and changes no snippet of another story
C17_ArchivesUnlocked ==
    [][PastChecks(snip_ret')
         => /\ \A r \in snippets :
                  (r.story_id = snip_ret'.arg /\ ~r.is_locked /\ r.is_active)
                      => [r EXCEPT !.is_active = FALSE] \in snippets'
            /\ \A r \in snippets : \E q \in snippets' : q.id = r.id
            /\ \A r \in snippets : r.story_id # snip_ret'.arg => r \in snippets'
            /\ \A q \in snippets' : q.story_id # snip_ret'.arg => q \in snippets]_vars

\* a run archived an unlocked snippet of its story while an active, unlocked
\* snippet of another story stayed as it was
C17_Witness ==
    /\ PastChecks(snip_ret)
    /\ snip_ret.archived # {}
    /\ \A id \in snip_ret.archived :
          \E r \in snippets : r.id = id /\ r.story_id = snip_ret.arg
                                 /\ ~r.is_active /\ ~r.is_locked
    /\ \E q \in snippets : q.story_id # snip_ret.arg /\ q.is_active /\ ~q.is_locked

\* C18: every snippet generate_snippets saves has the chapter that was being
\* processed as its phase, whatever phase the model output carries
C18_PhaseHardcoded ==
    snip_ret.op = "generate_snippets"
        => \A n \in 1..Len(snip_ret.saved) :
              RowOf(snip_ret.saved[n]).phase = snip_ret.chapters[n]

\* the snippet the model labelled MIDLIFE was saved for CHILDHOOD, the chapter
\* its messages came from
C18_Witness ==
    /\ snip_ret.op = "generate_snippets"
    /\ "CHILDHOOD" \in DOMAIN snip_ret.results
    /\ snip_ret.results["CHILDHOOD"].success
    /\ \E n \in 1..Len(snip_ret.saved) :
          /\ snip_ret.chapters[n] = "CHILDHOOD"
          /\ RowOf(snip_ret.saved[n]).title = <<"S","o","c","c","e","r">>
          /\ RowOf(snip_ret.saved[n]).phase = "CHILDHOOD"

\* the result for a chapter gives snippets to save
Usable(result) == result.success /\ result.snippets # <<>>

\* the rows a run saved with a given phase
SavedFor(phase) ==
    {r \in snippets : r.phase = phase /\ \E n \in 1..Len(snip_ret.saved) : snip_ret.saved[n] = r.id}

\* C19: a chapter whose processing fails is recorded as an error for that
\* chapter and the run goes on: every eligible chapter is processed, in
\* chronological order, and the snippets of each chapter that gives some are
\* saved
C19_FailureDoesNotStopRun ==
    PastChecks(snip_ret)
        => /\ DOMAIN snip_ret.results = CascadePhases(snip_ret.arg)
           /\ \A phase \in DOMAIN snip_ret.results :
                 IF Usable(snip_ret.results[phase])
                 THEN /\ Cardinality(SavedFor(phase)) = Len(snip_ret.results[phase].snippets)
                      /\ {<<r.title, r.content>> : r \in SavedFor(phase)}
                           = {<<d.title, d.content>> : d \in Range(snip_ret.results[phase].snippets)}
                 ELSE \E n \in 1..Len(snip_ret.errors) :
                         /\ snip_ret.errors[n].phase = phase
                         /\ snip_ret.errors[n].error = snip_ret.results[phase].error
           /\ \A m, n \in 1..Len(snip_ret.saved) :
                 m < n => IndexOf(VALID_SNIPPET_PHASES, RowOf(snip_ret.saved[m]).phase)
                            <= IndexOf(VALID_SNIPPET_PHASES, RowOf(snip_ret.saved[n]).phase)

\* the first chapter failed and the snippets of a later chapter were saved
C19_Witness ==
    /\ PastChecks(snip_ret)
    /\ Len(snip_ret.errors) = 1
    /\ snip_ret.errors[1].phase = "CHILDHOOD"
    /\ SavedFor("PRESENT") # {}

\* the chapters a run had results for, in chronological order
InOrder(chapters) ==
    SelectSeq(VALID_SNIPPET_PHASES, LAMBDA phase : phase \in chapters)

\* the errors a run collects when every chapter it has a result for fails
AllErrors(results) ==
    LET processed == InOrder(DOMAIN results) IN
    [n \in 1..Len(processed) |-> [phase |-> processed[n],
                                  error |-> results[processed[n]].error]]

\* C20: generate_snippets returns success=true exactly when the run saved at
\* least one snippet; otherwise it returns success=false with the errors
\* collected chapter by chapter
C20_SuccessIffSaved ==
    [][snip_ret'.op = "generate_snippets"
         => /\ snip_ret'.success <=> (\E q \in snippets' : \A r \in snippets : r.id # q.id)
            /\ (PastChecks(snip_ret') /\ ~snip_ret'.success)
                 => /\ snip_ret'.errors = AllErrors(snip_ret'.results)
                    /\ snip_ret'.error = IF snip_ret'.errors # <<>>
                                         THEN "failed to generate any"
                                         ELSE "no snippets generated"]_vars

\* a run with two failing chapters, of two kinds, returned success=false with
\* both errors
C20_Witness ==
    /\ PastChecks(snip_ret)
    /\ ~snip_ret.success
    /\ snip_ret.error = "failed to generate any"
    /\ Len(snip_ret.errors) = 2
    /\ snip_ret.errors[1].error # snip_ret.errors[2].error


(***************************************************************************)
(* Phase lists by age range (checked under Spec)                           *)
(***************************************************************************)
\* C26: available_phases of a story whose age range is under_18 never
\* contains MIDLIFE or EARLY_ADULTHOOD, and available_phases of a story whose
\* age range is 31_45 contains every interview chapter (FAMILY_HISTORY,
\* CHILDHOOD, ADOLESCENCE, EARLY_ADULTHOOD, MIDLIFE, PRESENT).
C26_PhasesByAge ==
    /\ age_range = "under_18" =>
          /\ "MIDLIFE" \notin Range(available_phases)
          /\ "EARLY_ADULTHOOD" \notin Range(available_phases)
    /\ age_range = "31_45" =>
          Range(VALID_SNIPPET_PHASES) \subseteq Range(available_phases)
    /\ "MIDLIFE" \notin Range(AvailableFor("under_18"))
    /\ "EARLY_ADULTHOOD" \notin Range(AvailableFor("under_18"))
    /\ Range(VALID_SNIPPET_PHASES) \subseteq Range(AvailableFor("31_45"))

\* a story of age range under_18 that advance_phase took past ADOLESCENCE,
\* straight to PRESENT
C26_Witness ==
    /\ age_range = "under_18"
    /\ story_ret.op = "advance_phase"
    /\ story_ret.ok
    /\ story_ret.prev_phase = "ADOLESCENCE"
    /\ current_phase = "PRESENT"

\* C21: a regeneration run skips every chapter whose grouped messages hold
\* fewer than 2 messages written by the user: the cascade is not called for
\* it (no model is invoked) and the run saves no snippet with that phase
C21_SparseChapterSkipped ==
    PastChecks(snip_ret)
        => \A phase \in Range(VALID_SNIPPET_PHASES) :
              Cardinality({i \in DOMAIN get_story_messages(snip_ret.arg) :
                              /\ get_story_messages(snip_ret.arg)[i].phase_context = phase
                              /\ get_story_messages(snip_ret.arg)[i].role = "user"}) < 2
                  => /\ phase \notin DOMAIN snip_ret.results
                     /\ \A n \in 1..Len(snip_ret.saved) :
                           /\ snip_ret.chapters[n] # phase
                           /\ RowOf(snip_ret.saved[n]).phase # phase

\* a run on story 1, whose ADOLESCENCE chapter has one user message and two
\* assistant messages, saved snippets and none for ADOLESCENCE
C21_Witness ==
    /\ PastChecks(snip_ret)
    /\ snip_ret.arg = 1
    /\ snip_ret.saved # <<>>
    /\ \E i \in DOMAIN get_story_messages(1) :
          get_story_messages(1)[i] = Msg("user", "ADOLESCENCE")
    /\ "ADOLESCENCE" \notin DOMAIN snip_ret.results
    /\ \A r \in snippets : r.phase # "ADOLESCENCE"

(***************************************************************************)
(* The life of a snippet (checked under SpecLifecycle)                     *)
(***************************************************************************)
\* the stored snippets of a story
StoredFor(story_id) == {r \in snippets : r.story_id = story_id}

\* C22: after any sequence of snippet operations (regeneration, lock toggle,
\* archive, restore, purge, reorder), get_existing_snippets returns exactly
\* the snippets of the story with is_active true and get_archived_snippets
\* exactly those with is_active false, each once: no snippet is in both reads
\* and no stored snippet is missing from both
C22_ReadsPartition ==
    \A story_id \in StoryIds :
        LET existing == get_existing_snippets(snippets, story_id, FALSE)
            archived == get_archived_snippets(snippets, story_id) IN
        /\ Range(existing) = {r \in StoredFor(story_id) : r.is_active}
        /\ Range(archived) = {r \in StoredFor(story_id) : ~r.is_active}
        /\ Len(existing) = Cardinality(Range(existing))
        /\ Len(archived) = Cardinality(Range(archived))
        /\ Range(existing) \cap Range(archived) = {}
        /\ Range(existing) \cup Range(archived) = StoredFor(story_id)

\* after a reorder request, story 1 has a snippet in the normal read and
\* another in the archive
C22_Witness ==
    /\ snip_ret.op = "reorder_snippets"
    /\ snip_ret.success
    /\ get_existing_snippets(snippets, 1, FALSE) # <<>>
    /\ get_archived_snippets(snippets, 1) # <<>>

\* C23: archiving is reversible. restore_snippet right after
\* soft_delete_snippet on the same snippet leaves the row as it was before
\* the archiving (same id, title, content, phase and lock state) with
\* is_active true, and the normal read of its story lists it again; a
\* regeneration run changes nothing but is_active in the rows it archives,
\* and restore_snippet right after the run brings such a row back the same way
C23_ArchiveReversible ==
    [][/\ (/\ snip_ret.op = "soft_delete_snippet"
           /\ snip_ret'.op = "restore_snippet"
           /\ snip_ret'.arg = snip_ret.arg)
          => \A r \in snip_ret.before :
                /\ [r EXCEPT !.is_active = TRUE] \in snippets'
                /\ \E n \in DOMAIN get_existing_snippets(snippets', r.story_id, FALSE) :
                      get_existing_snippets(snippets', r.story_id, FALSE)[n].id = r.id
       /\ PastChecks(snip_ret')
          => \A r \in snippets :
                r.id \in snip_ret'.archived => [r EXCEPT !.is_active = FALSE] \in snippets'
       /\ (/\ PastChecks(snip_ret)
           /\ snip_ret'.op = "restore_snippet"
           /\ snip_ret'.arg \in snip_ret.archived)
          => \A r \in snippets :
                r.id = snip_ret'.arg
                   => /\ ~r.is_active
                      /\ [r EXCEPT !.is_active = TRUE] \in snippets'
                      /\ \E n \in DOMAIN get_existing_snippets(snippets', r.story_id, FALSE) :
                            get_existing_snippets(snippets', r.story_id, FALSE)[n].id = r.id]_vars

\* restore_snippet found a locked snippet in the archive and brought it back,
\* still locked
C23_Witness ==
    /\ snip_ret.op = "restore_snippet"
    /\ snip_ret.success
    /\ \E r \in snip_ret.before :
          /\ ~r.is_active
          /\ r.is_locked
          /\ [r EXCEPT !.is_active = TRUE] \in snippets

\* C24: a stored snippet goes away only by permanently_delete_snippet, which
\* removes the one row it names; regeneration, delete_snippets, soft delete,
\* restore, lock toggle and reorder never take an id out of the table
C24_OnlyPurgeRemoves ==
    [][\/ {r.id : r \in snippets} \subseteq {q.id : q \in snippets'}
       \/ /\ snip_ret'.op = "permanently_delete_snippet"
          /\ {r.id : r \in snippets} \ {q.id : q \in snippets'} = {snip_ret'.arg}]_vars

\* a purge removed one of two stored snippets
C24_Witness ==
    /\ snip_ret.op = "permanently_delete_snippet"
    /\ snip_ret.success
    /\ \A r \in snippets : r.id # snip_ret.arg
    /\ snippets # {}
    /\ next_id > Cardinality(snippets) + 1

\* C25: after a reorder request that was carried out, every listed id that is
\* a snippet of the story has display_order equal to its position in the
\* list, and no snippet of another story is changed
C25_ReorderByPosition ==
    [][(snip_ret'.op = "reorder_snippets" /\ snip_ret'.success)
         => /\ \A n \in DOMAIN snip_ret'.snippet_ids : \A q \in snippets' :
                  (q.id = snip_ret'.snippet_ids[n] /\ q.story_id = snip_ret'.arg)
                      => q.display_order = n - 1
            /\ \A r \in snippets : r.story_id # snip_ret'.arg => r \in snippets'
            /\ \A q \in snippets' : q.story_id # snip_ret'.arg => q \in snippets]_vars

\* C27: toggle_lock flips is_locked of the row it names and changes nothing
\* else in the table (is_active, title, content, phase and display_order of
\* the row stay, as does every other row), so that a second toggle_lock right
\* after the first gives the row back as it was; for an id of no row it
\* returns None and the table stays as it is
C27_ToggleLockFlips ==
    [][snip_ret'.op = "toggle_lock"
         => /\ IF \E r \in snippets : r.id = snip_ret'.arg
               THEN /\ snip_ret'.success
                    /\ \E r \in snippets :
                          /\ r.id = snip_ret'.arg
                          /\ snippets' = (snippets \ {r})
                                            \cup {[r EXCEPT !.is_locked = ~r.is_locked]}
               ELSE /\ ~snip_ret'.success
                    /\ snippets' = snippets
            /\ next_id' = next_id
            /\ (snip_ret.op = "toggle_lock" /\ snip_ret.arg = snip_ret'.arg)
                  => snip_ret.before \subseteq snippets']_vars

\* toggle_lock found a locked, archived snippet and unlocked it: the second
\* flip of a row that was created unlocked
C27_Witness ==
    /\ snip_ret.op = "toggle_lock"
    /\ snip_ret.success
    /\ \E r \in snip_ret.before :
          /\ r.is_locked
          /\ ~r.is_active
          /\ [r EXCEPT !.is_locked = FALSE] \in snippets

(***************************************************************************)
(* Degenerate inputs of the message filter (checked under SpecFilter)      *)
(***************************************************************************)
\* C28: filter_messages_by_phases raises at once when messages is None, and
\* returns the empty list without raising when messages is the empty list,
\* when no phase is requested, or when no message belongs to a requested
\* phase
C28_DegenerateInputs ==
    flt.fn \notin {"none", "pending"}
        => /\ flt.kind = "None"
                 => /\ flt.fn = "raised"
                    /\ flt.error = "TypeError"
                    /\ flt.result = <<>>
           /\ (/\ flt.kind = "list"
               /\ \/ flt.messages = <<>>
                  \/ flt.phases = <<>>
                  \/ \A i \in 1..Len(flt.messages) : ~Belongs(flt.messages, flt.phases, i))
                 => /\ flt.fn \in {"filtered", "refiltered"}
                    /\ flt.error = "None"
                    /\ flt.result = <<>>

\* the call with messages None raised TypeError
C28_Witness ==
    /\ flt.fn = "raised"
    /\ flt.kind = "None"
    /\ flt.error = "TypeError"
    /\ flt.phases = <<CHILDHOOD>>

(***************************************************************************)
(* Grouping a transcript by chapter (checked under SpecGroup)              *)
(***************************************************************************)
\* C29: _group_messages_by_phase puts a message in group P exactly when its
\* phase_context is P and P is a content-bearing chapter (FAMILY_HISTORY,
\* CHILDHOOD, ADOLESCENCE, EARLY_ADULTHOOD, MIDLIFE, PRESENT); messages tagged
\* GREETING, AGE_SELECTION or SYNTHESIS, or with no tag, are in no group; each
\* group lists its messages in the order of the transcript, and a chapter
\* with no message has no group
C29_GroupedByTag ==
    grp.fn = "grouped"
        => /\ DOMAIN grp.result \subseteq Range(VALID_SNIPPET_PHASES)
           /\ \A P \in Range(VALID_SNIPPET_PHASES) :
                 IF \E i \in 1..Len(grp.messages) : grp.messages[i].phase_context = P
                 THEN /\ P \in DOMAIN grp.result
                      /\ grp.result[P]
                           = SelectSeq(grp.messages, LAMBDA msg : msg.phase_context = P)
                 ELSE P \notin DOMAIN grp.result
           /\ \A P \in DOMAIN grp.result : \A n \in 1..Len(grp.result[P]) :
                 grp.result[P][n].phase_context
                     \notin {"GREETING", "AGE_SELECTION", "SYNTHESIS", "None", ""}
           /\ DOMAIN grp.result = group_messages_by_phase(grp.messages)
           /\ \A P \in DOMAIN grp.result : grp.result[P] = InPhase(grp.messages, P)

\* a CHILDHOOD message of the user, a GREETING message and a CHILDHOOD message
\* of the assistant give one group, CHILDHOOD, with the first and the third
C29_Witness ==
    /\ grp.fn = "grouped"
    /\ grp.messages = << Msg("user", "CHILDHOOD"), Msg("user", "GREETING"),
                         Msg("assistant", "CHILDHOOD") >>
    /\ DOMAIN grp.result = {"CHILDHOOD"}
    /\ grp.result["CHILDHOOD"] = << Msg("user", "CHILDHOOD"), Msg("assistant", "CHILDHOOD") >>

(***************************************************************************)
(* Age selection on the route (checked under SpecSteward)                  *)
(***************************************************************************)
\* C30: in phase AGE_SELECTION, should_advance returns true exactly when the
\* user's message with the blanks around it removed is one of "1".."5"; it
\* then sets age_range by the mapping 1 under_18, 2 18_30, 3 31_45, 4 46_60,
\* 5 61_plus and phase_order to the list of that range ("3" gives 31_45 and a
\* phase_order with MIDLIFE); for any other message it returns false and
\* leaves age_range and phase_order as they are.  The phase stays
\* AGE_SELECTION either way
C30_AgeSelection ==
    [][(stw'.ret.op = "should_advance" /\ stw.phase = "AGE_SELECTION")
         => LET trimmed == Strip(stw'.ret.user_message) IN
            /\ stw'.ret.result
                  <=> trimmed \in {<<"1">>, <<"2">>, <<"3">>, <<"4">>, <<"5">>}
            /\ stw'.phase = "AGE_SELECTION"
            /\ IF stw'.ret.result
               THEN /\ stw'.age_range = parse_age_selection(trimmed)
                    /\ stw'.age_range
                         = CASE trimmed = <<"1">> -> "under_18"
                             [] trimmed = <<"2">> -> "18_30"
                             [] trimmed = <<"3">> -> "31_45"
                             [] trimmed = <<"4">> -> "46_60"
                             [] trimmed = <<"5">> -> "61_plus"
                    /\ stw'.phase_order = STEWARD_AGE_PHASE_MAPPING[stw'.age_range]
                    /\ trimmed = <<"3">> => "MIDLIFE" \in Range(stw'.phase_order)
                    /\ trimmed = <<"1">> => "MIDLIFE" \notin Range(stw'.phase_order)
               ELSE /\ stw'.age_range = stw.age_range
                    /\ stw'.phase_order = stw.phase_order]_vars

\* the message " 3 " in AGE_SELECTION was taken as 3: age range 31_45, MIDLIFE
\* in the phase order
C30_Witness ==
    /\ stw.phase = "AGE_SELECTION"
    /\ stw.ret.op = "should_advance"
    /\ stw.ret.user_message = <<" ", "3", " ">>
    /\ stw.ret.result
    /\ stw.age_range = "31_45"
    /\ "MIDLIFE" \in Range(stw.phase_order)

(***************************************************************************)
(* Properties of the ChronologicalSteward route (checked under SpecSteward)*)
(***************************************************************************)
\* C31: in every interview chapter phase should_advance returns true if and
\* only if the caller passed the explicit transition signal, whatever the
\* message is; in SYNTHESIS it never returns true.
C31_ExplicitOnly ==
    stw.ret.op = "should_advance" =>
        /\ stw.phase \in StewardInterviewPhases
              => stw.ret.result = stw.ret.explicit_transition
        /\ stw.phase = "SYNTHESIS" => ~stw.ret.result

\* in a chapter, a message holding an affirmative word and no explicit signal
\* did not advance
C31_Witness ==
    /\ stw.ret.op = "should_advance"
    /\ stw.phase = "CHILDHOOD"
    /\ \E word \in Affirmative : Contains(Lower(stw.ret.user_message), word)
    /\ ~stw.ret.explicit_transition
    /\ ~stw.ret.result

(***************************************************************************)
(* The two transition rules (checked under Spec)                           *)
(***************************************************************************)
\* C39: for every state of the story and every target phase,
\* Story.can_advance_to(target) returns what PhaseService.can_transition
\* returns for the story's current phase, the target, the story's available
\* phases and its age range, also when current_phase is not an available phase.
C39_RulesAgree ==
    \A target \in PhaseNames :
        can_advance_to(target)
            = can_transition(current_phase, target, available_phases, age_range)

(***************************************************************************)
(* Properties of concurrent generate_snippets runs (checked under SpecRuns)*)
(***************************************************************************)
\* the rows a run inserted, as the table holds them
InsertedBy(p) ==
    {r \in snippets : \E i \in 1..Len(gen[p].saved) : gen[p].saved[i] = r.id}

\* C32: the regeneration sequence is not atomic.  A snippet a run inserted is
\* archived only by the delete_snippets step of another run that was taken
\* after the insert; so when both runs on a story have archived before either
\* inserted, the unlocked snippets of both stay active together.
C32_NotAtomic ==
    \A p \in Runs : \A r \in InsertedBy(p) :
        \/ r.is_active
        \/ \E q \in Runs \ {p} : /\ gen[q].pc # "idle"
                                 /\ gen[q].story_id = r.story_id
                                 /\ r.id \in gen[q].archived
                                 /\ r.id < gen[q].mark

\* both runs on story 2 have returned, each inserted a snippet after the
\* other had archived, and the two unlocked snippets are active together
C32_Witness ==
    /\ \A p \in Runs : gen[p].pc = "done" /\ gen[p].story_id = 2 /\ gen[p].saved # <<>>
    /\ \A p \in Runs : \A q \in Runs \ {p} : \A r \in InsertedBy(p) : r.id >= gen[q].mark
    /\ \A p \in Runs : \A r \in InsertedBy(p) : r.is_active /\ ~r.is_locked
    /\ Cardinality({r \in snippets : r.story_id = 2 /\ r.is_active /\ ~r.is_locked}) = 2

(***************************************************************************)
(* Properties of phase-advance requests (checked under SpecRequests)       *)
(***************************************************************************)
\* two entries of the log that follow each other are a race: plain advances of
\* two requests of the same kind that loaded the same story and both wrote
Raced(first, second) ==
    /\ first.p # second.p
    /\ first.kind = second.kind
    /\ first.target = "None" /\ second.target = "None"
    /\ first.saved /\ second.saved
    /\ first.loaded = second.loaded

\* the phase one advance of the story `s` leads to, for a request of `kind`
OneAdvance(kind, s) ==
    IF kind = "use_case" THEN entity_advance_phase(s).story.current_phase
    ELSE advance_to_next_phase(s.current_phase, s.age_range)

\* the phase order a request of `kind` works with
OrderOf(kind, s) ==
    IF kind = "use_case" THEN AvailableFor(s.age_range) ELSE get_phase_order(s.age_range)

IllegalTarget(e) ==
    e.target \in PhaseNames /\ ~entity_can_advance_to(e.loaded, e.target)

\* the request of a log entry asked for the next phase of a story that was at
\* the last of its available phases
AtFinalPhase(e) ==
    /\ e.target = "None"
    /\ PhaseIndexOf(e.loaded.current_phase, e.loaded.age_range)
           >= Len(AvailableFor(e.loaded.age_range)) - 1

\* C34: AdvancePhaseUseCase rejects an illegal transition before anything else
\* happens: for a target phase for which can_advance_to is false, or an advance
\* from the final phase, it raises PhaseTransitionError, the story is not saved
\* and its stored current_phase is unchanged.
C34_RejectsIllegal ==
    \A i \in 1..Len(uc.log) :
        LET e == uc.log[i] IN
        (/\ e.kind = "use_case"
         /\ e.error \notin {"EntityNotFoundError", "AuthorizationError"}
         /\ IllegalTarget(e) \/ AtFinalPhase(e))
            => /\ e.error = "PhaseTransitionError"
               /\ ~e.saved
               /\ e.after = e.before

(***************************************************************************)
(* Properties of InterviewService.process_chat                             *)
(***************************************************************************)
\* from phase a to phase b is no move, the move from GREETING into the first
\* chapter of the order, or the move to the chapter that follows a in the order
OneStep(a, b, order) ==
    \/ a = b
    \/ a = "GREETING" /\ b = order[1] /\ b = "FAMILY_HISTORY"
    \/ /\ a \in Range(order) /\ b \in Range(order)
       /\ IndexOf(order, b) = IndexOf(order, a) + 1

\* C35 (checked under SpecChat): starting from a new story, any sequence of
\* process_chat calls moves the story through the chapters of its phase order
\* one step at a time without skipping one: the first chapter entered is
\* FAMILY_HISTORY and each advance moves to the chapter that follows.
C35_NoChapterSkipped ==
    [][LET order == get_phase_order(chat'.age_range) IN
       /\ OneStep(chat.current_phase, chat'.entered, order)
       /\ OneStep(chat'.entered, chat'.current_phase, order)]_vars

\* C36 (checked under SpecChat): process_chat persists the user message before
\* the model is invoked: when the agent call fails, the user message is still
\* stored for the story, tagged with the current phase, and no assistant
\* message is stored for that turn.
C36_UserMessageKept ==
    (chat.ret.op = "process_chat" /\ chat.ret.error = "Exception") =>
        /\ Len(chat.messages) = chat.ret.count + 1
        /\ chat.messages[Len(chat.messages)]
               = ChatMessage("user", chat.ret.user_content, chat.current_phase)

\* the second call failed in the agent after an age selection: the story holds
\* the first turn and the user message of the second, tagged FAMILY_HISTORY
C36_Witness ==
    /\ chat.ret.op = "process_chat" /\ chat.ret.error = "Exception"
    /\ chat.ret.count = 2
    /\ chat.ret.user_content = TextThree
    /\ Len(chat.messages) = 3
    /\ chat.messages[3] = ChatMessage("user", TextThree, "FAMILY_HISTORY")

\* the 20 most recent of a list of messages, in chronological order
MostRecent(messages) ==
    IF Len(messages) <= HistoryLimit THEN messages
    ELSE SubSeq(messages, Len(messages) - HistoryLimit + 1, Len(messages))

\* C37 (checked under SpecHistory): process_chat passes at most 20 messages to
\* the agent as context, and they are the 20 most recent messages of the
\* story, the last 20 in chronological order.
C37_MostRecentContext ==
    (chat.ret.op = "process_chat" /\ chat.ret.error # "ValueError") =>
        /\ Len(chat.ret.context) <= HistoryLimit
        /\ chat.ret.context = MostRecent(SubSeq(chat.messages, 1, chat.ret.count + 1))

(***************************************************************************)
(* Termination of the cascades (checked under SpecCalls)                   *)
(***************************************************************************)
\* the cascade a call works through
CascadeOf(call) ==
    IF call.fn = "run_gemini_fallback" THEN ModelCascade(call.models) ELSE call.models

\* a call invoked the first models of `cascade`, in list order and each once,
\* and, for run_gemini_fallback, reported as attempts the number it invoked
WithinCascade(call, cascade) ==
    /\ Len(call.result.invoked) <= Len(cascade)
    /\ call.result.invoked = SubSeq(cascade, 1, Len(call.result.invoked))
    /\ \A i, j \in 1..Len(call.result.invoked) :
           call.result.invoked[i] = call.result.invoked[j] => i = j
    /\ call.fn = "run_gemini_fallback"
          => /\ call.result.attempts \in 1..Len(cascade)
             /\ call.result.attempts = Len(call.result.invoked)

FailsPrecondition(story_id) ==
    \/ story_id \notin Stories
    \/ get_story_messages(story_id) = <<>>
    \/ group_messages_by_phase(get_story_messages(story_id)) = {}

\* C40: when generate_snippets fails one of its precondition checks (story not
\* found, no messages, no message with a content-bearing phase tag) it returns
\* success = false without invoking any model and without changing any
\* snippet: the rows, their is_active and is_locked flags and their
\* display_order are the same as before the call.
C40_RefusalChangesNothing ==
    [][(snip_ret'.op = "generate_snippets" /\ FailsPrecondition(snip_ret'.arg))
         => /\ ~snip_ret'.success
            /\ snip_ret'.error \in {"story not found", "no messages", "no valid phase context"}
            /\ snip_ret'.results = <<>>
            /\ snip_ret'.saved = <<>>
            /\ snip_ret'.archived = {}
            /\ snippets' = snippets
            /\ next_id' = next_id]_vars

\* generate_snippets was refused for story 4, whose messages carry no
\* content-bearing tag, while the table held a locked and an unlocked active
\* snippet; both are still there
C40_Witness ==
    /\ snip_ret.op = "generate_snippets"
    /\ snip_ret.arg = 4
    /\ snip_ret.error = "no valid phase context"
    /\ \E r \in snippets : r.is_active /\ r.is_locked
    /\ \E r \in snippets : r.is_active /\ ~r.is_locked
=============================================================================
